---- MODULE Spec2Model ----
(***************************************************************************)
(* ReasonChip: the client Multiplexor (net/client/multiplexor.py), the     *)
(* broker-attached TaskManager (net/worker/task_manager.py) and the        *)
(* bus-attached TaskManager (net/task_manager.py), each as a state machine *)
(* of its own: MuxSpec, WorkerSpec and BusSpec.                            *)
(***************************************************************************)
EXTENDS Integers, Sequences, FiniteSets, TLC

(***************************************************************************)
(* Bounds of the model.                                                    *)
(***************************************************************************)
MaxSends == 2
MaxNotes == 1
MaxEOF == 2
MaxCapacity == 2
MaxPackets == 3
MaxQueueCalls == 3
MaxInbound == 2
MaxDisconnects == 2
MaxTransportSends == 2
MaxServerReads == 2
MaxServerSends == 2
MaxStreamSends == 3
MaxNameLen == 4
MaxDepth == 3
MaxBranches == 3
MaxResultLen == 2
MaxFrames == 2

\* receive_packet calls on the connection
MaxReceives == 3

\* The connection ids and the cookies the clients use (uuids in the code).
ConnIds == {"A", "B"}
Cookies == {"c1", "c2"}

VARIABLES
    \* ---- Multiplexor (net/client/multiplexor.py) ----
    connections,   \* Multiplexor._connections: the registered connection ids
    cookies,       \* Multiplexor._cookies: cookie -> connection id
    dead,          \* Multiplexor._dead
    info,          \* the ConnectionInfo object of each id: cookies, incoming_queue
    transport,     \* the client transport: "up", "lost" (peer gone, EOF due), "eof"
    eofs,          \* how many times the transport delivered EOF to the callback
    peer_pending,  \* cookies the peer received a RUN for and owes a RESULT
    run_sent,      \* cookies a RUN has been sent for (a client emits a cookie once)
    sends,         \* send_packet calls so far
    notes,         \* non-RESULT packets the peer has sent so far
    owed,          \* <<id, c>>: send_packet returned true for id with c bound to id
    released       \* id -> the cookies it owned when release(id) returned true

VARIABLES
    \* ---- broker-attached TaskManager (net/worker/task_manager.py) ----
    w_capacity,    \* TaskManager._max_capacity
    w_queue,       \* TaskManager._incoming_queue
    w_dying,       \* TaskManager._dying
    w_tasks,       \* TaskManager._tasks: cookie -> state of its engine task
    w_loop,        \* the _multiplexing task: "running", "exited", "crashed"
    w_t_dying,     \* _multiplexing's t_dying is not None
    w_t_incoming,  \* _multiplexing's t_incoming: "armed", "none", "cancelled"
    w_connected,   \* the worker's transport is connected
    w_eof,         \* the worker's transport has delivered None
    w_packets,     \* packets the transport has delivered so far
    w_outcomes,    \* cookie -> how each engine invocation of it ended, in order
    w_sent,        \* cookie -> rc of each RESULT sent on the transport, in order
    w_fatal        \* the log.fatal line of the packet handled last, "none" without one

VARIABLES
    \* ---- bus-attached TaskManager (net/task_manager.py) ----
    b_capacity,    \* TaskManager._max_capacity
    b_sem,         \* the value of TaskManager._sem
    b_queue,       \* TaskManager._incoming_queue
    b_dying,       \* TaskManager._dying
    b_tasks,       \* TaskManager._tasks: cookie -> state of its engine task
    b_loop,        \* the _multiplexing task: "created", "running", "exited", "crashed"
    b_t_dying,     \* _multiplexing's t_dying is not None
    b_t_incoming,  \* _multiplexing's t_incoming: "armed", "none", "cancelled"
    b_call,        \* the queue() call in progress: "idle", "waiting", "granted"
    b_call_packet, \* the packet of the queue() call in progress
    b_rets         \* what each queue() call returned, in order

VARIABLES
    \* ---- client transports (net/transports/*_client.py) ----
    ct_kind,       \* the binding: "socket", "tcp" or "grpc"
    ct_handler,    \* the _loop task: "reading", "in_callback", "in_eof_callback",
                   \* "done", or "none" once disconnect() has cleared it
    ct_cancel,     \* cancel() was called on the _loop task and is not yet delivered
    ct_sent_none,  \* _sent_none
    ct_open,       \* _writer (socket, tcp) or _outgoing_queue (grpc) is set
    ct_peer,       \* the peer's end of the stream: "open" or "closed"
    ct_disc,       \* the disconnect() call in progress: "idle" or "waiting"
    ct_returned,   \* how many disconnect() calls have returned
    ct_log,        \* what the callback was called with, in order: "pkt" or "EOF"
    ct_sends       \* the outcome of each send_packet call, in order

VARIABLES
    \* ---- server transports (net/transports/socket_server.py, tcp_server.py) ----
    sv_phase,      \* one accepted connection: "accepted", "loop", "closing", "closed"
    sv_registered, \* its id is in _connections
    sv_death,      \* its death_signal is set
    sv_t_die,      \* _client_loop's t_die: "armed" (in wl) or "removed"
    sv_t_read,     \* t_read: "reading", "cancelling", "cancelled", "gone", "none"
    sv_t_write,    \* t_write: "waiting", "cancelled", "none"
    sv_inbound,    \* packets of the peer not yet read
    sv_peer_sent,  \* packets the peer has sent so far
    sv_peer,       \* the peer's end: "open" or "closed"
    sv_out,        \* length of the connection's outgoing_queue
    sv_events,     \* the callbacks made for the connection: "new", "read", "closed"
    sv_rets        \* what each send_packet(connection_id, p) returned, in order

VARIABLES
    \* ---- HTTP streaming response (transports/http/fastapi/v1/stream/stream.py) ----
    hs_registered,  \* the session is in HttpServerTransport._connections
    hs_death,       \* session.death_signal is set
    hs_queue,       \* session.outgoing_queue: the packet types not yet taken
    hs_t_die,       \* log_stream's t_die: "pending", "done" or "none"
    hs_t_reader,    \* t_reader: "pending", "cancelled", "none", or the packet it got
    hs_phase,       \* log_stream: "streaming", "finally" or "ended"
    hs_written,     \* the packets yielded to the response, in order
    hs_disconnects, \* calls of callbacks.disconnect_callback(session)
    hs_sends        \* calls of send_packet(connection_id, p) so far

VARIABLES
    \* ---- EngineContext name resolution (core/engine/engine.py) ----
    en_stack,   \* _stack: the fqns of the running steps, as strings of characters
    en_name,    \* the name handed to _resolve
    en_result,  \* what _resolve did: pending, returned a string or raised
    en_again    \* what _resolve did when handed the string it had returned

VARIABLES
    \* ---- Engine.run and EngineContext.branch (core/engine/engine.py) ----
    eg_phase,    \* Engine.run: "loop", "in_branch", "returned" or "raised"
    eg_entry,    \* t_entry
    eg_args,     \* t_args, t_kwargs
    eg_stack,    \* context._stack
    eg_frames,   \* the branch calls in progress, outermost first: fqn and the stack at the call
    eg_exc,      \* the exception in flight, and whether a step or a branch has it
    eg_result,   \* what Engine.run returned, or the exception that left it
    eg_log,      \* the steps invoked and how each ended, in order
    eg_last,     \* the stack before and after the branch call that completed last
    eg_branches  \* branch calls made so far

VARIABLES
    \* ---- frame codec (net/protocol.py): one direction of one stream ----
    fc_stream,   \* the octets written and not yet read
    fc_eof,      \* the writer's end is closed
    fc_frames,   \* what each send_packet that returned true wrote: packet and octets
    fc_recv      \* what each receive_packet returned, and the length it was told

VARIABLES
    \* ---- Client.receive_packet (net/client/client.py) on one connection ----
    cl_queue,    \* the items of conn.incoming_queue: packets by arrival number
    cl_getters,  \* the futures of Queue._getters, in order: whose get() waits there
    cl_woken,    \* the get() calls a put has woken and that have not run yet, in order
    cl_call,     \* the receive_packet call in progress: "idle", "timed" or "untimed"
    cl_returned, \* what each receive_packet call returned, in order: a packet or 0 for None
    cl_put       \* how many packets the multiplexor has put on the queue

\* Two branch calls that one step started together on its EngineContext
\* (core/engine/engine.py), each in its own task.
VARIABLES
    cb_stack,     \* EngineContext._stack: the fqns, each with the call that pushed it
    cb_pc,        \* per call: "new", "running" (its step is suspended), "done", "failed"
    cb_own,       \* per call: the fqn it pushed, <<>> before
    cb_seen,      \* per call: the name its step branched to and what _resolve made of it
    cb_popped     \* per call: the call whose frame its finally removed, -1 before

\* Two connections accepted by server transports of one binding
\* (net/transports/socket_server.py, tcp_server.py, grpc_server.py,
\* http_server.py); the callbacks are the broker's.
VARIABLES
    tx_binding,   \* "socket" (tcp_server.py is the same code), "grpc" or "http"
    tx_session,   \* per connection: the transport it is on, its connection_id and
                  \* the object holding its death_signal and outgoing_queue
    tx_state,     \* per connection: "none", "open", "ended", or where its task waits
                  \* for a lock: "accept_blocked", "read_blocked", "closed_blocked"
    tx_lock,      \* per transport: the connection whose task holds _lock, 0 if free
    tx_table,     \* per transport: _connections, connection_id -> connection, 0 if absent
    tx_death,     \* per object: its death_signal is set
    tx_queue,     \* per object: its outgoing_queue, each packet the connection it is for
    tx_getters,   \* per object: the connections whose t_write waits in outgoing_queue.get()
    tx_wire,      \* per connection: the packets written to its peer
    tx_reads,     \* per connection: the packets read from its peer
    tx_sent       \* send_packet calls made by the broker outside a callback

VARIABLE variant   \* the TaskManager the process runs: "worker", "bus" or "none"

mux_vars == <<connections, cookies, dead, info, transport, eofs, peer_pending,
              run_sent, sends, notes, owed, released>>

w_vars == <<w_capacity, w_queue, w_dying, w_tasks, w_loop, w_t_dying, w_t_incoming,
            w_connected, w_eof, w_packets, w_outcomes, w_sent, w_fatal>>

b_vars == <<b_capacity, b_sem, b_queue, b_dying, b_tasks, b_loop, b_t_dying,
            b_t_incoming, b_call, b_call_packet, b_rets>>

ct_vars == <<ct_kind, ct_handler, ct_cancel, ct_sent_none, ct_open, ct_peer, ct_disc,
             ct_returned, ct_log, ct_sends>>

sv_vars == <<sv_phase, sv_registered, sv_death, sv_t_die, sv_t_read, sv_t_write,
             sv_inbound, sv_peer_sent, sv_peer, sv_out, sv_events, sv_rets>>

hs_vars == <<hs_registered, hs_death, hs_queue, hs_t_die, hs_t_reader, hs_phase,
             hs_written, hs_disconnects, hs_sends>>

en_vars == <<en_stack, en_name, en_result, en_again>>

eg_vars == <<eg_phase, eg_entry, eg_args, eg_stack, eg_frames, eg_exc, eg_result,
             eg_log, eg_last, eg_branches>>

fc_vars == <<fc_stream, fc_eof, fc_frames, fc_recv>>

cl_vars == <<cl_queue, cl_getters, cl_woken, cl_call, cl_returned, cl_put>>

cb_vars == <<cb_stack, cb_pc, cb_own, cb_seen, cb_popped>>

tx_vars == <<tx_binding, tx_session, tx_state, tx_lock, tx_table, tx_death, tx_queue,
             tx_getters, tx_wire, tx_reads, tx_sent>>

vars == <<mux_vars, w_vars, b_vars, ct_vars, sv_vars, hs_vars, en_vars, eg_vars, fc_vars, cl_vars, cb_vars, tx_vars, variant>>

\* What the steps of one component leave alone.
not_mux == <<w_vars, b_vars, ct_vars, sv_vars, hs_vars, en_vars, eg_vars, fc_vars, cl_vars, cb_vars, tx_vars, variant>>
not_worker == <<mux_vars, b_vars, ct_vars, sv_vars, hs_vars, en_vars, eg_vars, fc_vars, cl_vars, cb_vars, tx_vars, variant>>
not_bus == <<mux_vars, w_vars, ct_vars, sv_vars, hs_vars, en_vars, eg_vars, fc_vars, cl_vars, cb_vars, tx_vars, variant>>
not_ct == <<mux_vars, w_vars, b_vars, sv_vars, hs_vars, en_vars, eg_vars, fc_vars, cl_vars, cb_vars, tx_vars, variant>>
not_sv == <<mux_vars, w_vars, b_vars, ct_vars, hs_vars, en_vars, eg_vars, fc_vars, cl_vars, cb_vars, tx_vars, variant>>
not_hs == <<mux_vars, w_vars, b_vars, ct_vars, sv_vars, en_vars, eg_vars, fc_vars, cl_vars, cb_vars, tx_vars, variant>>
not_en == <<mux_vars, w_vars, b_vars, ct_vars, sv_vars, hs_vars, eg_vars, fc_vars, cl_vars, cb_vars, tx_vars, variant>>
not_eg == <<mux_vars, w_vars, b_vars, ct_vars, sv_vars, hs_vars, en_vars, fc_vars, cl_vars, cb_vars, tx_vars, variant>>
not_fc == <<mux_vars, w_vars, b_vars, ct_vars, sv_vars, hs_vars, en_vars, eg_vars, cl_vars, cb_vars, tx_vars, variant>>
not_tm == <<mux_vars, ct_vars, sv_vars, hs_vars, en_vars, eg_vars, fc_vars, cl_vars, cb_vars, tx_vars, variant>>
not_cl == <<mux_vars, w_vars, b_vars, ct_vars, sv_vars, hs_vars, en_vars, eg_vars, fc_vars, cb_vars, tx_vars, variant>>
not_cb == <<mux_vars, w_vars, b_vars, ct_vars, sv_vars, hs_vars, en_vars, eg_vars, fc_vars, cl_vars, tx_vars, variant>>
not_tx == <<mux_vars, w_vars, b_vars, ct_vars, sv_vars, hs_vars, en_vars, eg_vars, fc_vars, cl_vars, cb_vars, variant>>

(***************************************************************************)
(* Packets (net/protocol.py).                                              *)
(***************************************************************************)
SocketPacket(type, cookie, rc) == [packet_type |-> type, cookie |-> cookie, rc |-> rc]

ConnectionInfo == [cookies |-> <<>>, incoming_queue |-> <<>>]

Remove(s, x) ==
    LET i == CHOOSE j \in 1..Len(s) : s[j] = x /\ \A k \in 1..(j - 1) : s[k] # x
    IN  SubSeq(s, 1, i - 1) \o SubSeq(s, i + 1, Len(s))

Drop(f, x) == [y \in (DOMAIN f) \ {x} |-> f[y]]

(***************************************************************************)
(* Multiplexor                                                             *)
(***************************************************************************)
MuxInit ==
    /\ connections = {}
    /\ cookies = <<>>
    /\ dead = FALSE
    /\ info = [id \in ConnIds |-> ConnectionInfo]
    /\ transport = "up"
    /\ eofs = 0
    /\ peer_pending = {}
    /\ run_sent = {}
    /\ sends = 0
    /\ notes = 0
    /\ owed = {}
    /\ released = <<>>

\* Multiplexor.register: a fresh ConnectionInfo under the lock; an id already
\* in the map raises ValueError and changes nothing.
Register(id) ==
    /\ id \notin connections
    /\ connections' = connections \cup {id}
    /\ info' = [info EXCEPT ![id] = ConnectionInfo]
    /\ owed' = {p \in owed : p[1] # id}
    /\ released' = Drop(released, id)
    /\ UNCHANGED <<cookies, dead, transport, eofs, peer_pending, run_sent, sends, notes>>
    /\ UNCHANGED not_mux

\* The elements of a sequence.
Range(q) == {q[i] : i \in 1..Len(q)}

\* Multiplexor.release: looks the id up and returns true; nothing is removed
\* from the maps.
Release(id) ==
    /\ id \in connections
    /\ released' = [k \in (DOMAIN released) \cup {id} |->
                       IF k = id THEN Range(info[id].cookies) ELSE released[k]]
    /\ UNCHANGED <<connections, cookies, dead, info, transport, eofs, peer_pending,
                   run_sent, sends, notes, owed>>
    /\ UNCHANGED not_mux

\* What the transport's send_packet returns: true on a live connection; once
\* the peer is gone the write may still be accepted (a queued gRPC packet, a
\* half-closed socket) or fail.
TransportSendResults == IF transport = "up" THEN {TRUE} ELSE {TRUE, FALSE}

\* send_packet without its test that the cookie is new.
BindCookieAlways(id, c) ==
    /\ cookies' = [k \in (DOMAIN cookies) \cup {c} |-> IF k = c THEN id ELSE cookies[k]]
    /\ info' = [info EXCEPT ![id].cookies = Append(@, c)]

\* The binding step of send_packet: a cookie not in the map is bound to the
\* sending connection.
BindCookie(id, c) ==
    IF c \notin DOMAIN cookies
    THEN /\ cookies' = [k \in (DOMAIN cookies) \cup {c} |-> IF k = c THEN id ELSE cookies[k]]
         /\ info' = [info EXCEPT ![id].cookies = Append(@, c)]
    ELSE UNCHANGED <<cookies, info>>

\* Multiplexor.send_packet for a registered connection.
SendPacket(id, type, c) ==
    /\ sends < MaxSends
    /\ id \in connections
    /\ IF type = "RUN" THEN c \notin run_sent ELSE c \in run_sent
    /\ sends' = sends + 1
    /\ run_sent' = IF type = "RUN" THEN run_sent \cup {c} ELSE run_sent
    /\ BindCookie(id, c)
    /\ \E ok \in TransportSendResults :
          /\ owed' = IF ok /\ cookies'[c] = id THEN owed \cup {<<id, c>>} ELSE owed
          /\ peer_pending' = IF transport = "up" /\ type = "RUN"
                             THEN peer_pending \cup {c} ELSE peer_pending
    /\ UNCHANGED <<connections, dead, transport, eofs, notes>>
    /\ UNCHANGED released
    /\ UNCHANGED not_mux

\* Multiplexor.send_packet for an id that is not registered: returns false.
SendPacketUnknown(id) ==
    /\ sends < MaxSends
    /\ id \notin connections
    /\ sends' = sends + 1
    /\ UNCHANGED <<connections, cookies, dead, info, transport, eofs, peer_pending,
                   run_sent, notes, owed>>
    /\ UNCHANGED released
    /\ UNCHANGED not_mux

\* The routing branch without its "del self._cookies[cookie]".
RouteKeepsBinding(packet) ==
    IF packet.cookie \notin DOMAIN cookies
    THEN UNCHANGED <<cookies, info>>
    ELSE LET id == cookies[packet.cookie] IN
         /\ info' = [info EXCEPT ![id].incoming_queue = Append(@, packet),
                                 ![id].cookies = IF packet.packet_type = "RESULT"
                                                 THEN Remove(@, packet.cookie) ELSE @]
         /\ UNCHANGED cookies

\* The routing branch of _incoming_callback.
Route(packet) ==
    IF packet.cookie \notin DOMAIN cookies
    THEN UNCHANGED <<cookies, info>>
    ELSE LET id == cookies[packet.cookie] IN
         IF packet.packet_type = "RESULT"
         THEN /\ info' = [info EXCEPT ![id].incoming_queue = Append(@, packet),
                                      ![id].cookies = Remove(@, packet.cookie)]
              /\ cookies' = Drop(cookies, packet.cookie)
         ELSE /\ info' = [info EXCEPT ![id].incoming_queue = Append(@, packet)]
              /\ UNCHANGED cookies

\* The peer answers a RUN it holds with its one RESULT.
IncomingResult(c, rc) ==
    /\ transport = "up"
    /\ c \in peer_pending
    /\ peer_pending' = peer_pending \ {c}
    /\ Route(SocketPacket("RESULT", c, rc))
    /\ UNCHANGED <<connections, dead, transport, eofs, run_sent, sends, notes, owed>>
    /\ UNCHANGED released
    /\ UNCHANGED not_mux

\* Any other packet from the peer, for any cookie.
IncomingOther(c) ==
    /\ transport = "up"
    /\ notes < MaxNotes
    /\ notes' = notes + 1
    /\ Route(SocketPacket("CANCEL", c, "NONE"))
    /\ UNCHANGED <<connections, dead, transport, eofs, peer_pending, run_sent, sends, owed>>
    /\ UNCHANGED released
    /\ UNCHANGED not_mux

\* The peer goes away; the transport's reader has not reported it yet.
PeerGone ==
    /\ transport = "up"
    /\ transport' = "lost"
    /\ UNCHANGED <<connections, cookies, dead, info, eofs, peer_pending, run_sent,
                   sends, notes, owed>>
    /\ UNCHANGED released
    /\ UNCHANGED not_mux

\* The RESULT packets _death_process puts on one connection's queue.
DeathResults(id) ==
    [i \in 1..Len(info[id].cookies) |->
        SocketPacket("RESULT", info[id].cookies[i], "BROKER_WENT_AWAY")]

\* Multiplexor._death_process
DeathProcess ==
    /\ info' = [id \in ConnIds |->
                  IF id \in connections
                  THEN [info[id] EXCEPT !.incoming_queue = @ \o DeathResults(id)]
                  ELSE info[id]]
    /\ connections' = {}
    /\ cookies' = <<>>

\* _incoming_callback(None): the death process, then dead is set.
EOFCallback ==
    /\ DeathProcess
    /\ dead' = TRUE
    /\ eofs' = eofs + 1
    /\ transport' = "eof"
    /\ UNCHANGED <<peer_pending, run_sent, sends, notes, owed>>
    /\ UNCHANGED released
    /\ UNCHANGED not_mux

\* The transport reports the end of the connection (peer close or disconnect()).
IncomingEOF ==
    /\ transport \in {"up", "lost"}
    /\ EOFCallback

\* A transport whose disconnect() interrupts the reader inside the callback
\* reports the end once more.
IncomingEOFAgain ==
    /\ transport = "eof"
    /\ eofs < MaxEOF
    /\ EOFCallback

(***************************************************************************)
(* Broker-attached TaskManager (net/worker/task_manager.py)                *)
(***************************************************************************)
\* A packet as the TaskManager reads it: its type, its cookie ("none" when
\* absent) and whether it names a pipeline.  type "NONE" is the transport's
\* None (end of the connection).
WorkPacket(type, cookie, pipeline) ==
    [packet_type |-> type, cookie |-> cookie, pipeline |-> pipeline]

WorkerPackets ==
    {WorkPacket("RUN", c, TRUE) : c \in Cookies}
        \cup {WorkPacket("RUN", "none", TRUE)}
        \cup {WorkPacket("CANCEL", c, FALSE) : c \in Cookies}
        \cup {WorkPacket("SHUTDOWN", "none", FALSE),
              WorkPacket("REGISTER", "none", FALSE),
              WorkPacket("NONE", "none", FALSE)}

\* How an engine invocation ends when nobody cancels it: engine.run returns a
\* value json.dumps accepts, returns one it rejects, or raises.
EngineOutcomes == {"value", "unserializable", "raised"}

\* How a cancelled invocation ends: the CancelledError leaves _run_engine, or
\* the workflow turns it into an exception of its own.
CancelOutcomes == {"cancelled", "cancel_raised"}

Ended == {"ended", "cancelled"}

WInit ==
    /\ w_capacity \in 1..MaxCapacity
    /\ w_queue = <<>>
    /\ w_dying = FALSE
    /\ w_tasks = <<>>
    /\ w_loop = "running"
    /\ w_t_dying = TRUE
    /\ w_t_incoming = "armed"
    /\ w_connected = TRUE
    /\ w_eof = FALSE
    /\ w_packets = 0
    /\ w_outcomes = [c \in Cookies |-> <<>>]
    /\ w_sent = [c \in Cookies |-> <<>>]
    /\ w_fatal = "none"

\* TaskManager._incoming_packet: the transport's callback queues what it read.
WIncomingPacket(packet) ==
    /\ w_packets < MaxPackets
    /\ ~w_eof
    /\ w_packets' = w_packets + 1
    /\ w_queue' = Append(w_queue, packet)
    /\ w_eof' = (packet.packet_type = "NONE")
    /\ UNCHANGED <<w_capacity, w_dying, w_tasks, w_loop, w_t_dying, w_t_incoming,
                   w_connected, w_outcomes, w_sent, w_fatal>>
    /\ UNCHANGED not_worker

\* TaskManager.stop: sets dying when it is not set.
WStop ==
    /\ ~w_dying
    /\ w_dying' = TRUE
    /\ UNCHANGED <<w_capacity, w_queue, w_tasks, w_loop, w_t_dying, w_t_incoming,
                   w_connected, w_eof, w_packets, w_outcomes, w_sent, w_fatal>>
    /\ UNCHANGED not_worker

\* _run_engine with no "except Exception": what the engine raises leaves
\* the task without a RESULT.
WRunEngineResultUncaught(outcome) ==
    IF outcome = "value" THEN <<"OK">> ELSE <<>>

\* _run_engine with json.dumps outside its try: a value always goes out OK.
WRunEngineResultUnserialized(outcome) ==
    CASE outcome \in {"value", "unserializable"} -> <<"OK">>
      [] outcome \in {"raised", "cancel_raised"} -> <<"EXCEPTION">>
      [] OTHER -> <<>>

\* The RESULT _run_engine sends for an outcome: <<rc>>, or <<>> when the
\* CancelledError passes its "except Exception".
WRunEngineResult(outcome) ==
    CASE outcome = "value" -> <<"OK">>
      [] outcome = "unserializable" -> <<"EXCEPTION">>
      [] outcome = "raised" -> <<"EXCEPTION">>
      [] outcome = "cancel_raised" -> <<"EXCEPTION">>
      [] outcome = "cancelled" -> <<>>

\* _run_engine comes to its end: the RESULT is sent and the task is done.
WRunEngine(c, outcome) ==
    /\ c \in DOMAIN w_tasks
    /\ \/ w_tasks[c] = "running" /\ outcome \in EngineOutcomes
       \/ w_tasks[c] = "cancelling" /\ outcome \in CancelOutcomes
    /\ w_tasks' = [w_tasks EXCEPT ![c] = IF outcome = "cancelled" THEN "cancelled" ELSE "ended"]
    /\ w_outcomes' = [w_outcomes EXCEPT ![c] = Append(@, outcome)]
    /\ w_sent' = [w_sent EXCEPT ![c] = @ \o WRunEngineResult(outcome)]
    /\ UNCHANGED <<w_capacity, w_queue, w_dying, w_loop, w_t_dying, w_t_incoming,
                   w_connected, w_eof, w_packets, w_fatal>>
    /\ UNCHANGED not_worker

\* _srv_run without its capacity branch.
WSrvRunNoCapacity(capacity, tasks, packet) ==
    IF packet.cookie = "none" \/ ~packet.pipeline \/ packet.cookie \in DOMAIN tasks
    THEN [restart |-> FALSE, fatal |-> "packet", tasks |-> tasks]
    ELSE [restart |-> TRUE, fatal |-> "none",
          tasks |-> [c \in (DOMAIN tasks) \cup {packet.cookie} |->
                        IF c = packet.cookie THEN "running" ELSE tasks[c]]]

\* _srv_run without its collision branch: the entry is made over the one
\* that is there.
WSrvRunOverwrites(capacity, tasks, packet) ==
    IF Cardinality(DOMAIN tasks) >= capacity
    THEN [restart |-> FALSE, fatal |-> "capacity", tasks |-> tasks]
    ELSE IF packet.cookie = "none" \/ ~packet.pipeline
    THEN [restart |-> FALSE, fatal |-> "packet", tasks |-> tasks]
    ELSE [restart |-> TRUE, fatal |-> "none",
          tasks |-> [c \in (DOMAIN tasks) \cup {packet.cookie} |->
                        IF c = packet.cookie THEN "running" ELSE tasks[c]]]

\* _srv_run: [restart, fatal, tasks] for a RUN packet against the tasks map;
\* fatal is the line it logs with log.fatal.
WSrvRun(capacity, tasks, packet) ==
    IF Cardinality(DOMAIN tasks) >= capacity
    THEN [restart |-> FALSE, fatal |-> "capacity", tasks |-> tasks]
    ELSE IF packet.cookie = "none" \/ ~packet.pipeline
    THEN [restart |-> FALSE, fatal |-> "packet", tasks |-> tasks]
    ELSE IF packet.cookie \in DOMAIN tasks
    THEN [restart |-> FALSE, fatal |-> "collision", tasks |-> tasks]
    ELSE [restart |-> TRUE, fatal |-> "none",
          tasks |-> [c \in (DOMAIN tasks) \cup {packet.cookie} |->
                        IF c = packet.cookie THEN "running" ELSE tasks[c]]]

\* _srv_cancel: task.cancel() on the cookie's engine task; a task that is
\* done ignores it.
WSrvCancel(tasks, packet) ==
    IF packet.cookie = "none"
    THEN [restart |-> FALSE, fatal |-> "cookie", tasks |-> tasks]
    ELSE IF packet.cookie \notin DOMAIN tasks
    THEN [restart |-> TRUE, fatal |-> "none", tasks |-> tasks]
    ELSE [restart |-> TRUE, fatal |-> "none",
          tasks |-> [tasks EXCEPT ![packet.cookie] =
                        IF @ = "running" THEN "cancelling" ELSE @]]

\* _process_server_packet: None, SHUTDOWN and unsupported types return False.
WProcessServerPacket(capacity, tasks, packet) ==
    CASE packet.packet_type = "RUN" -> WSrvRun(capacity, tasks, packet)
      [] packet.packet_type = "CANCEL" -> WSrvCancel(tasks, packet)
      [] packet.packet_type \in {"NONE", "SHUTDOWN"} ->
            [restart |-> FALSE, fatal |-> "none", tasks |-> tasks]
      [] OTHER -> [restart |-> FALSE, fatal |-> "unsupported", tasks |-> tasks]

\* The waitables of wl that are done: t_dying, t_incoming and the
\* _wait_for_engine wrapper of each engine task that is done.
WReady ==
    (IF w_t_dying /\ w_dying THEN {"dying"} ELSE {})
        \cup (IF \/ w_t_incoming = "cancelled"
                 \/ w_t_incoming = "armed" /\ w_queue # <<>>
              THEN {"incoming"} ELSE {})
        \cup {c \in DOMAIN w_tasks : w_tasks[c] \in Ended}

\* One pass of the _multiplexing loop with `done` the set asyncio.wait
\* returned.  `popped` are the wrappers whose cookie the pass removed: all of
\* them, or those iterated before a cancelled one raised out of t.result().
WMultiplexing(done, popped) ==
    LET wrappers == done \cap Cookies
        raising == {c \in wrappers : w_tasks[c] = "cancelled"}
        tasks1 == [c \in (DOMAIN w_tasks) \ popped |-> w_tasks[c]]
        got == "incoming" \in done /\ w_t_incoming = "armed"
        queue1 == IF got THEN Tail(w_queue) ELSE w_queue
        t_dying1 == IF "dying" \in done THEN FALSE ELSE w_t_dying
        t_incoming1 == IF "dying" \in done /\ w_t_incoming = "armed" /\ ~got
                       THEN "cancelled" ELSE w_t_incoming
        res == WProcessServerPacket(w_capacity, tasks1, Head(w_queue))
        rearm == res.restart /\ ~w_dying
    IN
    /\ w_loop = "running"
    /\ done # {} /\ done \subseteq WReady
    /\ w_t_incoming = "cancelled" => "incoming" \in done
    /\ popped \subseteq wrappers \ raising
    /\ raising = {} => popped = wrappers
    /\ w_queue' = queue1
    /\ IF raising # {}
       THEN \* t.result() raises CancelledError out of the loop
            /\ w_loop' = "crashed"
            /\ w_tasks' = tasks1
            /\ UNCHANGED <<w_dying, w_t_dying, w_t_incoming, w_connected, w_fatal>>
       ELSE IF "incoming" \in done /\ w_t_incoming = "cancelled"
       THEN \* t_incoming.result() raises CancelledError out of the loop
            /\ w_loop' = "crashed"
            /\ w_tasks' = tasks1
            /\ w_t_dying' = t_dying1
            /\ UNCHANGED <<w_dying, w_t_incoming, w_connected, w_fatal>>
       ELSE /\ w_t_dying' = t_dying1
            /\ IF got
               THEN /\ w_tasks' = res.tasks
                    /\ w_fatal' = res.fatal
                    /\ w_t_incoming' = IF rearm THEN "armed" ELSE "none"
                    /\ w_dying' = (w_dying \/ ~rearm)
               ELSE /\ w_tasks' = tasks1
                    /\ w_t_incoming' = t_incoming1
                    /\ UNCHANGED <<w_dying, w_fatal>>
            /\ IF ~w_t_dying' /\ w_t_incoming' = "none" /\ DOMAIN w_tasks' = {}
               THEN w_loop' = "exited" /\ w_connected' = FALSE
               ELSE UNCHANGED <<w_loop, w_connected>>
    /\ UNCHANGED <<w_capacity, w_eof, w_packets, w_outcomes, w_sent>>
    /\ UNCHANGED not_worker

WNext ==
    \/ \E packet \in WorkerPackets : WIncomingPacket(packet)
    \/ WStop
    \/ \E c \in Cookies, outcome \in EngineOutcomes \cup CancelOutcomes : WRunEngine(c, outcome)
    \/ \E done \in SUBSET ({"dying", "incoming"} \cup Cookies), popped \in SUBSET Cookies :
          WMultiplexing(done, popped)

(***************************************************************************)
(* Bus-attached TaskManager (net/task_manager.py)                          *)
(***************************************************************************)
\* A packet handed to queue(): its type, its cookie ("none" when absent) and
\* its workflow attribute: "set", "empty", or "missing" for a SocketPacket as
\* net/protocol.py declares it (the field there is called pipeline).
BusPacket(type, cookie, workflow) ==
    [packet_type |-> type, cookie |-> cookie, workflow |-> workflow]

BusPackets ==
    {BusPacket("RUN", c, w) : c \in Cookies, w \in {"set", "missing"}}
        \cup {BusPacket("RUN", "none", "set")}
        \cup {BusPacket("CANCEL", c, "empty") : c \in Cookies}
        \cup {BusPacket("SHUTDOWN", "none", "empty"),
              BusPacket("REGISTER", "none", "empty")}

\* asyncio.Semaphore() in __init__: the default value, 1.
SemaphoreDefault == 1

BInit ==
    /\ b_capacity \in 1..MaxCapacity
    /\ b_sem = SemaphoreDefault
    /\ b_queue = <<>>
    /\ b_dying = FALSE
    /\ b_tasks = <<>>
    /\ b_loop = "created"
    /\ b_t_dying = TRUE
    /\ b_t_incoming = "armed"
    /\ b_call = "idle"
    /\ b_call_packet = BusPacket("NONE", "none", "empty")
    /\ b_rets = <<>>

NoPacket == BusPacket("NONE", "none", "empty")

\* Semaphore.release() n times: a waiting acquire() is handed the first
\* permit, the rest raise the value.
BRelease(n) ==
    IF n > 0 /\ b_call = "waiting"
    THEN b_call' = "granted" /\ b_sem' = b_sem + n - 1
    ELSE b_call' = b_call /\ b_sem' = b_sem + n

\* TaskManager.stop: sets dying when it is not set.
BStop ==
    /\ ~b_dying
    /\ b_dying' = TRUE
    /\ UNCHANGED <<b_capacity, b_sem, b_queue, b_tasks, b_loop, b_t_dying,
                   b_t_incoming, b_call, b_call_packet, b_rets>>
    /\ UNCHANGED not_bus

\* queue() up to the return of its asyncio.wait: t_queue takes a permit if one
\* is free, t_dying is done if dying is set; with both done the call returns
\* false, with the permit alone it queues the packet, with neither it waits.
BQueue(packet) ==
    /\ b_call = "idle"
    /\ Len(b_rets) < MaxQueueCalls
    /\ IF b_sem > 0
       THEN /\ b_sem' = b_sem - 1
            /\ b_rets' = Append(b_rets, ~b_dying)
            /\ b_queue' = IF b_dying THEN b_queue ELSE Append(b_queue, packet)
            /\ UNCHANGED <<b_call, b_call_packet>>
       ELSE IF b_dying
       THEN /\ b_rets' = Append(b_rets, FALSE)
            /\ UNCHANGED <<b_sem, b_queue, b_call, b_call_packet>>
       ELSE /\ b_call' = "waiting"
            /\ b_call_packet' = packet
            /\ UNCHANGED <<b_sem, b_queue, b_rets>>
    /\ UNCHANGED <<b_capacity, b_dying, b_tasks, b_loop, b_t_dying, b_t_incoming>>
    /\ UNCHANGED not_bus

\* The timeout of a waiting queue(): both tasks are cancelled, false.
BQueueTimeout ==
    /\ b_call = "waiting"
    /\ b_call' = "idle"
    /\ b_call_packet' = NoPacket
    /\ b_rets' = Append(b_rets, FALSE)
    /\ UNCHANGED <<b_capacity, b_sem, b_queue, b_dying, b_tasks, b_loop, b_t_dying,
                   b_t_incoming>>
    /\ UNCHANGED not_bus

\* A waiting queue() wakes on dying alone: t_queue is cancelled, false.
BQueueDying ==
    /\ b_call = "waiting"
    /\ b_dying
    /\ b_call' = "idle"
    /\ b_call_packet' = NoPacket
    /\ b_rets' = Append(b_rets, FALSE)
    /\ UNCHANGED <<b_capacity, b_sem, b_queue, b_dying, b_tasks, b_loop, b_t_dying,
                   b_t_incoming>>
    /\ UNCHANGED not_bus

\* A waiting queue() wakes holding the permit: with t_dying done as well it
\* returns false, otherwise it queues the packet and returns true.
BQueueGranted ==
    /\ b_call = "granted"
    /\ b_call' = "idle"
    /\ b_call_packet' = NoPacket
    /\ b_rets' = Append(b_rets, ~b_dying)
    /\ b_queue' = IF b_dying THEN b_queue ELSE Append(b_queue, b_call_packet)
    /\ UNCHANGED <<b_capacity, b_sem, b_dying, b_tasks, b_loop, b_t_dying, b_t_incoming>>
    /\ UNCHANGED not_bus

\* _run_engine comes to its end; nothing is sent.
BRunEngine(c, outcome) ==
    /\ c \in DOMAIN b_tasks
    /\ \/ b_tasks[c] = "running" /\ outcome \in EngineOutcomes
       \/ b_tasks[c] = "cancelling" /\ outcome \in CancelOutcomes
    /\ b_tasks' = [b_tasks EXCEPT ![c] = IF outcome = "cancelled" THEN "cancelled" ELSE "ended"]
    /\ UNCHANGED <<b_capacity, b_sem, b_queue, b_dying, b_loop, b_t_dying, b_t_incoming,
                   b_call, b_call_packet, b_rets>>
    /\ UNCHANGED not_bus

\* _srv_run: [restart, raised, tasks]; restart is whether the TaskInfo it
\* returns is truthy, raised whether packet.workflow raised AttributeError.
BSrvRun(capacity, tasks, packet) ==
    IF Cardinality(DOMAIN tasks) >= capacity
    THEN [restart |-> FALSE, raised |-> FALSE, tasks |-> tasks]
    ELSE IF packet.cookie = "none"
    THEN [restart |-> FALSE, raised |-> FALSE, tasks |-> tasks]
    ELSE IF packet.workflow = "missing"
    THEN [restart |-> FALSE, raised |-> TRUE, tasks |-> tasks]
    ELSE IF packet.workflow = "empty"
    THEN [restart |-> FALSE, raised |-> FALSE, tasks |-> tasks]
    ELSE IF packet.cookie \in DOMAIN tasks
    THEN [restart |-> FALSE, raised |-> FALSE, tasks |-> tasks]
    ELSE [restart |-> TRUE, raised |-> FALSE,
          tasks |-> [c \in (DOMAIN tasks) \cup {packet.cookie} |->
                        IF c = packet.cookie THEN "running" ELSE tasks[c]]]

\* _srv_cancel: returns None whatever it did.
BSrvCancel(tasks, packet) ==
    IF packet.cookie = "none" \/ packet.cookie \notin DOMAIN tasks
    THEN [restart |-> FALSE, raised |-> FALSE, tasks |-> tasks]
    ELSE [restart |-> FALSE, raised |-> FALSE,
          tasks |-> [tasks EXCEPT ![packet.cookie] =
                        IF @ = "running" THEN "cancelling" ELSE @]]

\* _process_server_packet
BProcessServerPacket(capacity, tasks, packet) ==
    CASE packet.packet_type = "RUN" -> BSrvRun(capacity, tasks, packet)
      [] packet.packet_type = "CANCEL" -> BSrvCancel(tasks, packet)
      [] OTHER -> [restart |-> FALSE, raised |-> FALSE, tasks |-> tasks]

\* The first statements of _multiplexing: the N permits are released.
BStart ==
    /\ b_loop = "created"
    /\ b_loop' = "running"
    /\ BRelease(b_capacity)
    /\ UNCHANGED <<b_capacity, b_queue, b_dying, b_tasks, b_t_dying, b_t_incoming,
                   b_call_packet, b_rets>>
    /\ UNCHANGED not_bus

BReady ==
    (IF b_t_dying /\ b_dying THEN {"dying"} ELSE {})
        \cup (IF \/ b_t_incoming = "cancelled"
                 \/ b_t_incoming = "armed" /\ b_queue # <<>>
              THEN {"incoming"} ELSE {})
        \cup {c \in DOMAIN b_tasks : b_tasks[c] \in Ended}

\* One pass of the _multiplexing loop; as the worker's, with a permit
\* released for each cookie removed and no transport to disconnect.
BMultiplexing(done, popped) ==
    LET wrappers == done \cap Cookies
        raising == {c \in wrappers : b_tasks[c] = "cancelled"}
        tasks1 == [c \in (DOMAIN b_tasks) \ popped |-> b_tasks[c]]
        got == "incoming" \in done /\ b_t_incoming = "armed"
        queue1 == IF got THEN Tail(b_queue) ELSE b_queue
        t_dying1 == IF "dying" \in done THEN FALSE ELSE b_t_dying
        t_incoming1 == IF "dying" \in done /\ b_t_incoming = "armed" /\ ~got
                       THEN "cancelled" ELSE b_t_incoming
        res == BProcessServerPacket(b_capacity, tasks1, Head(b_queue))
        rearm == res.restart /\ ~b_dying
    IN
    /\ b_loop = "running"
    /\ done # {} /\ done \subseteq BReady
    /\ b_t_incoming = "cancelled" => "incoming" \in done
    /\ popped \subseteq wrappers \ raising
    /\ raising = {} => popped = wrappers
    /\ b_queue' = queue1
    /\ BRelease(Cardinality(popped))
    /\ IF raising # {}
       THEN /\ b_loop' = "crashed"
            /\ b_tasks' = tasks1
            /\ UNCHANGED <<b_dying, b_t_dying, b_t_incoming>>
       ELSE IF "incoming" \in done /\ b_t_incoming = "cancelled"
       THEN /\ b_loop' = "crashed"
            /\ b_tasks' = tasks1
            /\ b_t_dying' = t_dying1
            /\ UNCHANGED <<b_dying, b_t_incoming>>
       ELSE IF got /\ res.raised
       THEN \* AttributeError out of _srv_run, after t_incoming = None
            /\ b_loop' = "crashed"
            /\ b_tasks' = tasks1
            /\ b_t_dying' = t_dying1
            /\ b_t_incoming' = "none"
            /\ UNCHANGED b_dying
       ELSE /\ b_t_dying' = t_dying1
            /\ IF got
               THEN /\ b_tasks' = res.tasks
                    /\ b_t_incoming' = IF rearm THEN "armed" ELSE "none"
                    /\ b_dying' = (b_dying \/ ~rearm)
               ELSE /\ b_tasks' = tasks1
                    /\ b_t_incoming' = t_incoming1
                    /\ UNCHANGED b_dying
            /\ IF ~b_t_dying' /\ b_t_incoming' = "none" /\ DOMAIN b_tasks' = {}
               THEN b_loop' = "exited"
               ELSE UNCHANGED b_loop
    /\ UNCHANGED <<b_capacity, b_call_packet, b_rets>>
    /\ UNCHANGED not_bus

BNext ==
    \/ \E packet \in BusPackets : BQueue(packet)
    \/ BQueueTimeout
    \/ BQueueDying
    \/ BQueueGranted
    \/ BStop
    \/ BStart
    \/ \E c \in Cookies, outcome \in EngineOutcomes \cup CancelOutcomes : BRunEngine(c, outcome)
    \/ \E done \in SUBSET ({"dying", "incoming"} \cup Cookies), popped \in SUBSET Cookies :
          BMultiplexing(done, popped)

(***************************************************************************)
(* Client transports (net/transports/socket_client.py, tcp_client.py,      *)
(* grpc_client.py), from the return of connect().                          *)
(***************************************************************************)
ClientKinds == {"socket", "tcp", "grpc"}

\* socket_client.py and tcp_client.py read with protocol.receive_packet.
Streamed == {"socket", "tcp"}

CtInit ==
    /\ ct_kind \in ClientKinds
    /\ ct_handler = "reading"
    /\ ct_cancel = FALSE
    /\ ct_sent_none = FALSE
    /\ ct_open = TRUE
    /\ ct_peer = "open"
    /\ ct_disc = "idle"
    /\ ct_returned = 0
    /\ ct_log = <<>>
    /\ ct_sends = <<>>

\* How many times the callback was called with event e.
Delivered(e) == Cardinality({i \in 1..Len(ct_log) : ct_log[i] = e})

\* The peer closes the stream, or sends bytes that do not decode.
CtPeerClose ==
    /\ ct_peer = "open"
    /\ ct_peer' = "closed"
    /\ UNCHANGED <<ct_kind, ct_handler, ct_cancel, ct_sent_none, ct_open, ct_disc,
                   ct_returned, ct_log, ct_sends>>
    /\ UNCHANGED not_ct

\* _loop reads a packet and calls the callback with it.
CtReceive ==
    /\ ct_handler = "reading"
    /\ ct_peer = "open"
    /\ Delivered("pkt") < MaxInbound
    /\ ct_log' = Append(ct_log, "pkt")
    /\ ct_handler' = "in_callback"
    /\ UNCHANGED <<ct_kind, ct_cancel, ct_sent_none, ct_open, ct_peer, ct_disc,
                   ct_returned, ct_sends>>
    /\ UNCHANGED not_ct

\* _loop comes to call the callback with None: socket and tcp set _sent_none
\* after the callback has returned, grpc (in its finally) before the call.
CtCallEOF ==
    /\ ct_log' = Append(ct_log, "EOF")
    /\ ct_handler' = "in_eof_callback"
    /\ ct_sent_none' = IF ct_kind = "grpc" THEN TRUE ELSE ct_sent_none

\* The read ends: receive_packet returns None, the gRPC stream ends or fails.
CtReceiveNone ==
    /\ ct_handler = "reading"
    /\ ct_peer = "closed"
    /\ CtCallEOF
    /\ UNCHANGED <<ct_kind, ct_cancel, ct_open, ct_peer, ct_disc, ct_returned, ct_sends>>
    /\ UNCHANGED not_ct

\* The callback returns to _loop.
CtCallbackReturn ==
    /\ \/ /\ ct_handler = "in_callback"
          /\ ct_handler' = "reading"
          /\ UNCHANGED ct_sent_none
       \/ /\ ct_handler = "in_eof_callback"
          /\ ct_handler' = "done"
          /\ ct_sent_none' = TRUE
    /\ UNCHANGED <<ct_kind, ct_cancel, ct_open, ct_peer, ct_disc, ct_returned, ct_log,
                   ct_sends>>
    /\ UNCHANGED not_ct

\* The CancelledError reaches the _loop task where it is suspended.  In a
\* read, receive_packet's bare except turns it into None and grpc's finally
\* runs; in a callback with a packet the task ends (socket, tcp) or the
\* finally runs (grpc); in the callback with None the task ends.
CtCancelled ==
    /\ ct_cancel
    /\ ct_cancel' = FALSE
    /\ \/ /\ ct_handler = "reading"
          /\ CtCallEOF
       \/ /\ ct_handler = "in_callback"
          /\ IF ct_kind = "grpc"
             THEN CtCallEOF
             ELSE ct_handler' = "done" /\ UNCHANGED <<ct_log, ct_sent_none>>
       \/ /\ ct_handler = "in_eof_callback"
          /\ ct_handler' = "done"
          /\ UNCHANGED <<ct_log, ct_sent_none>>
    /\ UNCHANGED <<ct_kind, ct_open, ct_peer, ct_disc, ct_returned, ct_sends>>
    /\ UNCHANGED not_ct

\* disconnect() up to its asyncio.wait: returns at once when there is no
\* handler, otherwise cancels it and waits for it.
CtDisconnect ==
    /\ ct_disc = "idle"
    /\ ct_returned < MaxDisconnects
    /\ IF ct_handler = "none"
       THEN /\ ct_returned' = ct_returned + 1
            /\ UNCHANGED <<ct_cancel, ct_disc>>
       ELSE /\ ct_cancel' = (ct_handler # "done")
            /\ ct_disc' = "waiting"
            /\ UNCHANGED ct_returned
    /\ UNCHANGED <<ct_kind, ct_handler, ct_sent_none, ct_open, ct_peer, ct_log, ct_sends>>
    /\ UNCHANGED not_ct

\* disconnect() after the handler has finished: the callback gets None unless
\* _sent_none is set, the state is cleared (grpc resets _sent_none as well).
CtDisconnectReturn ==
    /\ ct_disc = "waiting"
    /\ ct_handler = "done"
    /\ ct_log' = IF ct_sent_none THEN ct_log ELSE Append(ct_log, "EOF")
    /\ ct_handler' = "none"
    /\ ct_open' = FALSE
    /\ ct_sent_none' = IF ct_kind = "grpc" THEN FALSE ELSE ct_sent_none
    /\ ct_disc' = "idle"
    /\ ct_returned' = ct_returned + 1
    /\ UNCHANGED <<ct_kind, ct_cancel, ct_peer, ct_sends>>
    /\ UNCHANGED not_ct

\* What send_packet can do.  socket and tcp: "assert self._writer" raises when
\* the writer is cleared (with assertions compiled out the write on None fails
\* inside protocol.send_packet, which returns false); otherwise the write
\* succeeds, or fails once the peer is gone.  grpc: false without a queue,
\* true otherwise.
CtSendOutcomes ==
    IF ct_kind \in Streamed
    THEN IF ~ct_open THEN {"raised", "false"}
         ELSE IF ct_peer = "open" THEN {"true"} ELSE {"true", "false"}
    ELSE IF ~ct_open THEN {"false"} ELSE {"true"}

CtSendPacket(outcome) ==
    /\ Len(ct_sends) < MaxTransportSends
    /\ outcome \in CtSendOutcomes
    /\ ct_sends' = Append(ct_sends, outcome)
    /\ UNCHANGED <<ct_kind, ct_handler, ct_cancel, ct_sent_none, ct_open, ct_peer, ct_disc,
                   ct_returned, ct_log>>
    /\ UNCHANGED not_ct

CtNext ==
    \/ CtPeerClose
    \/ CtReceive
    \/ CtReceiveNone
    \/ CtCallbackReturn
    \/ CtCancelled
    \/ CtDisconnect
    \/ CtDisconnectReturn
    \/ \E outcome \in {"true", "false", "raised"} : CtSendPacket(outcome)

(***************************************************************************)
(* Server transports (net/transports/socket_server.py, tcp_server.py): one *)
(* accepted connection, from the call of _connection.                      *)
(***************************************************************************)
SvInit ==
    /\ sv_phase = "accepted"
    /\ sv_registered = FALSE
    /\ sv_death = FALSE
    /\ sv_t_die = "armed"
    /\ sv_t_read = "reading"
    /\ sv_t_write = "waiting"
    /\ sv_inbound = 0
    /\ sv_peer_sent = 0
    /\ sv_peer = "open"
    /\ sv_out = 0
    /\ sv_events = <<>>
    /\ sv_rets = <<>>

\* The peer writes a packet.
SvPeerSend ==
    /\ sv_peer = "open"
    /\ sv_peer_sent < MaxServerReads
    /\ sv_peer_sent' = sv_peer_sent + 1
    /\ sv_inbound' = sv_inbound + 1
    /\ UNCHANGED <<sv_phase, sv_registered, sv_death, sv_t_die, sv_t_read, sv_t_write,
                   sv_peer, sv_out, sv_events, sv_rets>>
    /\ UNCHANGED not_sv

\* The peer closes its end.
SvPeerClose ==
    /\ sv_peer = "open"
    /\ sv_peer' = "closed"
    /\ UNCHANGED <<sv_phase, sv_registered, sv_death, sv_t_die, sv_t_read, sv_t_write,
                   sv_inbound, sv_peer_sent, sv_out, sv_events, sv_rets>>
    /\ UNCHANGED not_sv

\* _connection up to _client_loop: the connection is registered and
\* new_connection_callback is called, under the lock.
SvConnection ==
    /\ sv_phase = "accepted"
    /\ sv_phase' = "loop"
    /\ sv_registered' = TRUE
    /\ sv_events' = Append(sv_events, "new")
    /\ UNCHANGED <<sv_death, sv_t_die, sv_t_read, sv_t_write, sv_inbound, sv_peer_sent,
                   sv_peer, sv_out, sv_rets>>
    /\ UNCHANGED not_sv

\* send_packet(connection_id, packet): false for an id that is not in
\* _connections, otherwise the packet is queued and true is returned.
SvSendPacket ==
    /\ Len(sv_rets) < MaxServerSends
    /\ sv_rets' = Append(sv_rets, sv_registered)
    /\ sv_out' = IF sv_registered THEN sv_out + 1 ELSE sv_out
    /\ UNCHANGED <<sv_phase, sv_registered, sv_death, sv_t_die, sv_t_read, sv_t_write,
                   sv_inbound, sv_peer_sent, sv_peer, sv_events>>
    /\ UNCHANGED not_sv

\* close_connection(connection_id): sets the death signal of a registered id.
SvCloseConnection ==
    /\ sv_registered
    /\ ~sv_death
    /\ sv_death' = TRUE
    /\ UNCHANGED <<sv_phase, sv_registered, sv_t_die, sv_t_read, sv_t_write, sv_inbound,
                   sv_peer_sent, sv_peer, sv_out, sv_events, sv_rets>>
    /\ UNCHANGED not_sv

\* stop_server: sets the death signal of every connection in _connections.
SvStopServer ==
    /\ sv_death' = (sv_death \/ sv_registered)
    /\ sv_death' # sv_death
    /\ UNCHANGED <<sv_phase, sv_registered, sv_t_die, sv_t_read, sv_t_write, sv_inbound,
                   sv_peer_sent, sv_peer, sv_out, sv_events, sv_rets>>
    /\ UNCHANGED not_sv

\* The tasks of wl that asyncio.wait can return as done.
SvReady ==
    (IF \/ sv_t_read \in {"cancelling", "cancelled"}
        \/ sv_t_read = "reading" /\ (sv_inbound > 0 \/ sv_peer = "closed")
     THEN {"read"} ELSE {})
        \cup (IF \/ sv_t_write = "cancelled"
                 \/ sv_t_write = "waiting" /\ sv_out > 0
              THEN {"write"} ELSE {})
        \cup (IF sv_t_die = "armed" /\ sv_death THEN {"die"} ELSE {})

\* task.cancel() on t_write: nothing on a task that is already done.
SvCancelWrite(t_write, finished) ==
    IF t_write = "waiting" /\ ~finished THEN "cancelled" ELSE t_write

\* One pass of _client_loop's while: the read, the write and the die branch
\* for the tasks in done.  A read cancelled while it waits ends with None
\* (receive_packet's bare except), one cancelled before it first ran ends
\* cancelled.  read_done and write_done say whether a task the die branch
\* cancels had finished during the awaits of the pass.
SvClientLoop(done, read_done, write_done) ==
    LET got_none == "read" \in done /\ (sv_t_read = "cancelling"
                        \/ (sv_t_read = "reading" /\ sv_inbound = 0))
        got_packet == "read" \in done /\ sv_t_read = "reading" /\ sv_inbound > 0
        \* ---- read branch
        read1 == IF "read" \notin done THEN sv_t_read
                 ELSE IF sv_t_read = "cancelled" THEN "none"
                 ELSE IF got_none THEN "gone"
                 ELSE "fresh"
        write1 == IF got_none THEN SvCancelWrite(sv_t_write, "write" \in done)
                  ELSE sv_t_write
        death1 == sv_death \/ got_none
        inbound1 == IF got_packet THEN sv_inbound - 1 ELSE sv_inbound
        \* ---- write branch
        sent == "write" \in done /\ sv_t_write = "waiting"
        write2 == IF "write" \notin done THEN write1
                  ELSE IF sent THEN "fresh" ELSE "none"
        out2 == IF sent THEN sv_out - 1 ELSE sv_out
        \* ---- die branch
        die == "die" \in done
        read3 == IF ~die THEN read1
                 ELSE IF read1 = "fresh" THEN "cancelled"
                 ELSE IF read1 = "reading" /\ ~read_done THEN "cancelling"
                 ELSE read1
        write3 == IF ~die THEN write2
                  ELSE IF write2 = "fresh" THEN "cancelled"
                  ELSE SvCancelWrite(write2, write_done)
        started(t, first) == IF t = "fresh" THEN first ELSE t
    IN
    /\ sv_phase = "loop"
    /\ done # {} /\ done \subseteq SvReady
    /\ read_done => (die /\ read1 = "reading" /\ inbound1 > 0 /\ (got_packet \/ sent))
    /\ write_done => (die /\ write2 = "waiting" /\ out2 > 0 /\ (got_packet \/ sent))
    /\ sv_events' = IF got_packet THEN Append(sv_events, "read") ELSE sv_events
    /\ sv_inbound' = inbound1
    /\ sv_out' = out2
    /\ sv_death' = (death1 \/ die)
    /\ sv_t_die' = IF die THEN "removed" ELSE sv_t_die
    /\ sv_t_read' = started(read3, "reading")
    /\ sv_t_write' = started(write3, "waiting")
    /\ sv_phase' = IF /\ sv_t_die' = "removed"
                      /\ sv_t_read' \in {"gone", "none"}
                      /\ sv_t_write' = "none"
                   THEN "closing" ELSE "loop"
    /\ UNCHANGED <<sv_registered, sv_peer_sent, sv_peer, sv_rets>>
    /\ UNCHANGED not_sv

\* _connection after _client_loop without its _connections.pop.
SvConnectionClosedKeepsId ==
    /\ sv_phase = "closing"
    /\ sv_phase' = "closed"
    /\ sv_events' = Append(sv_events, "closed")
    /\ UNCHANGED <<sv_registered, sv_death, sv_t_die, sv_t_read, sv_t_write, sv_inbound,
                   sv_peer_sent, sv_peer, sv_out, sv_rets>>
    /\ UNCHANGED not_sv

\* _connection after _client_loop: the id is removed and
\* closed_connection_callback is called, under the lock.
SvConnectionClosed ==
    /\ sv_phase = "closing"
    /\ sv_phase' = "closed"
    /\ sv_registered' = FALSE
    /\ sv_events' = Append(sv_events, "closed")
    /\ UNCHANGED <<sv_death, sv_t_die, sv_t_read, sv_t_write, sv_inbound, sv_peer_sent,
                   sv_peer, sv_out, sv_rets>>
    /\ UNCHANGED not_sv

SvNext ==
    \/ SvPeerSend
    \/ SvPeerClose
    \/ SvConnection
    \/ SvSendPacket
    \/ SvCloseConnection
    \/ SvStopServer
    \/ \E done \in SUBSET {"read", "write", "die"}, read_done, write_done \in BOOLEAN :
          SvClientLoop(done, read_done, write_done)
    \/ SvConnectionClosed

(***************************************************************************)
(* HTTP streaming response (net/transports/http/fastapi/v1/stream/stream.py *)
(* and http_server.py): one POST, from the first step of log_stream.       *)
(***************************************************************************)
\* The packet types the broker queues for a session: the terminal RESULT and
\* any other.
StreamPackets == {"RESULT", "SHUTDOWN"}

HsInit ==
    /\ hs_registered = TRUE
    /\ hs_death = FALSE
    /\ hs_queue = <<>>
    /\ hs_t_die = "pending"
    /\ hs_t_reader = "pending"
    /\ hs_phase = "streaming"
    /\ hs_written = <<>>
    /\ hs_disconnects = 0
    /\ hs_sends = 0

\* HttpServerTransport.send_packet: queues the packet for a known session.
HsSendPacket(p) ==
    /\ hs_sends < MaxStreamSends
    /\ hs_sends' = hs_sends + 1
    /\ hs_queue' = IF hs_registered THEN Append(hs_queue, p) ELSE hs_queue
    /\ UNCHANGED <<hs_registered, hs_death, hs_t_die, hs_t_reader, hs_phase,
                   hs_written, hs_disconnects>>
    /\ UNCHANGED not_hs

\* HttpServerTransport.close_connection: sets the death signal of a known session.
HsCloseConnection ==
    /\ hs_death' = (hs_death \/ hs_registered)
    /\ UNCHANGED <<hs_registered, hs_queue, hs_t_die, hs_t_reader, hs_phase,
                   hs_written, hs_disconnects, hs_sends>>
    /\ UNCHANGED not_hs

\* The task of session.death_signal.wait() finishes once the signal is set.
HsDieDone ==
    /\ hs_t_die = "pending"
    /\ hs_death
    /\ hs_t_die' = "done"
    /\ UNCHANGED <<hs_registered, hs_death, hs_queue, hs_t_reader, hs_phase,
                   hs_written, hs_disconnects, hs_sends>>
    /\ UNCHANGED not_hs

\* The task of session.outgoing_queue.get() finishes with the head of the queue.
HsReaderDone ==
    /\ hs_t_reader = "pending"
    /\ hs_queue # <<>>
    /\ hs_t_reader' = Head(hs_queue)
    /\ hs_queue' = Tail(hs_queue)
    /\ UNCHANGED <<hs_registered, hs_death, hs_t_die, hs_phase, hs_written,
                   hs_disconnects, hs_sends>>
    /\ UNCHANGED not_hs

\* t_reader after the t_die branch of a pass: cancel() ends a pending task
\* cancelled and does nothing to a finished one.
HsAfterDie(die_done) ==
    IF die_done /\ hs_t_reader = "pending" THEN "cancelled" ELSE hs_t_reader

\* One pass of log_stream's while loop: asyncio.wait returns the finished tasks.
HsPass ==
    LET die_done == hs_t_die = "done"
        reader_done == hs_t_reader \in StreamPackets \cup {"cancelled"}
        got == hs_t_reader \in StreamPackets
        t_die == IF die_done THEN "none" ELSE hs_t_die
        t_reader == IF ~reader_done THEN HsAfterDie(die_done)
                    ELSE IF got /\ hs_t_reader # "RESULT" THEN "pending"
                    ELSE "none"
    IN  /\ hs_phase = "streaming"
        /\ die_done \/ reader_done
        /\ hs_t_die' = t_die
        /\ hs_t_reader' = t_reader
        /\ hs_written' = IF reader_done /\ got THEN Append(hs_written, hs_t_reader)
                         ELSE hs_written
        /\ hs_death' = (hs_death \/ (reader_done /\ hs_t_reader = "RESULT"))
        /\ hs_phase' = IF t_die = "none" /\ t_reader = "none" THEN "finally"
                       ELSE "streaming"
        /\ UNCHANGED <<hs_registered, hs_queue, hs_disconnects, hs_sends>>
        /\ UNCHANGED not_hs

\* log_stream's finally: disconnect_callback, which is _thunk_disconnect.
HsDisconnect ==
    /\ hs_phase = "finally"
    /\ hs_phase' = "ended"
    /\ hs_disconnects' = hs_disconnects + 1
    /\ hs_registered' = FALSE
    /\ UNCHANGED <<hs_death, hs_queue, hs_t_die, hs_t_reader, hs_written, hs_sends>>
    /\ UNCHANGED not_hs

\* What the event loop runs by itself.
HsLoop == HsDieDone \/ HsReaderDone \/ HsPass \/ HsDisconnect

HsNext ==
    \/ \E p \in StreamPackets : HsSendPacket(p)
    \/ HsCloseConnection
    \/ HsDieDone
    \/ HsReaderDone
    \/ HsPass
    \/ HsDisconnect

(***************************************************************************)
(* EngineContext._resolve (core/engine/engine.py). A string is the         *)
(* sequence of its characters.                                             *)
(***************************************************************************)
Chars == {".", "a", "b"}

\* The strings of at most n characters.
Strings(n) == UNION {[1..m -> Chars] : m \in 0..n}

\* str.split("."): the pieces between the dots, "" included.
RECURSIVE Split(_)
Split(s) ==
    IF \A i \in DOMAIN s : s[i] # "."
    THEN <<s>>
    ELSE LET i == CHOOSE j \in DOMAIN s : s[j] = "." /\ \A h \in 1..(j - 1) : s[h] # "."
         IN  <<SubSeq(s, 1, i - 1)>> \o Split(SubSeq(s, i + 1, Len(s)))

\* ".".join(parts)
RECURSIVE Join(_)
Join(parts) ==
    IF parts = <<>> THEN <<>>
    ELSE IF Len(parts) = 1 THEN parts[1]
    ELSE parts[1] \o <<".">> \o Join(Tail(parts))

\* The loop that sets num_dots: it counts the parts up to the first empty one.
RECURSIVE NumDots(_)
NumDots(parts) ==
    IF parts = <<>> \/ Head(parts) = <<>> THEN 0 ELSE 1 + NumDots(Tail(parts))

Returned(s) == [state |-> "returned", value |-> s]

Raised(s) == [state |-> "WorkflowNotFoundException", value |-> s]

Resolve(stack, name) ==
    LET parts == Split(name)
        num_dots == NumDots(parts)
        current == Split(stack[Len(stack)])
    IN  IF stack = <<>> THEN Returned(name)
        ELSE IF num_dots = 0 THEN Returned(name)
        ELSE IF num_dots > Len(current) THEN Raised(name)
        ELSE Returned(Join(SubSeq(current, 1, Len(current) - num_dots)
                           \o SubSeq(parts, num_dots + 1, Len(parts))))

\* The fqns of at most n components, each a letter: what branch pushes has a
\* module path and a function name (_fetch_callable).
Dotted(n) ==
    {s \in Strings(2 * n - 1) :
        /\ s # <<>>
        /\ \A p \in {Split(s)[i] : i \in DOMAIN Split(s)} : Len(p) = 1}

Fqns == {s \in Dotted(MaxDepth) : Len(Split(s)) >= 2}

EnPending == [state |-> "pending", value |-> <<>>]

EnInit ==
    /\ en_stack \in {<<>>} \cup {<<f>> : f \in Fqns}
    /\ en_name \in Strings(MaxNameLen)
    /\ en_result = EnPending
    /\ en_again = EnPending

\* self._resolve(name)
EnResolve ==
    /\ en_result = EnPending
    /\ en_result' = Resolve(en_stack, en_name)
    /\ UNCHANGED <<en_stack, en_name, en_again>>
    /\ UNCHANGED not_en

\* self._resolve(fqn) of an fqn that self._resolve returned, on the same stack.
EnResolveAgain ==
    /\ en_result.state = "returned"
    /\ en_again = EnPending
    /\ en_again' = Resolve(en_stack, en_result.value)
    /\ UNCHANGED <<en_stack, en_name, en_result>>
    /\ UNCHANGED not_en

EnNext == EnResolve \/ EnResolveAgain

(***************************************************************************)
(* Engine.run and EngineContext.branch (core/engine/engine.py). The        *)
(* workflow steps are the environment: a running step calls branch,        *)
(* returns or raises. RestartEngine, TerminateEngine and WorkflowNotFound  *)
(* carry what engine.py reads from them (name, args; rc).                  *)
(***************************************************************************)
\* The workflows that can be imported: a.a, a.b, b.a.a and b.a, a step that
\* package b binds over the name of its subpackage b.a.
Workflows ==
    {<<"a", ".", "a">>, <<"a", ".", "b">>, <<"b", ".", "a", ".", "a">>, <<"b", ".", "a">>}

\* The names the caller and the steps use: the workflows, b.b, b, .b, ..a.b
EngineNames ==
    Workflows \cup {<<"b", ".", "b">>, <<"b">>, <<".", "b">>,
                    <<".", ".", "a", ".", "b">>}

EngineArgs == {"x1", "x2"}

EngineValues == {"v1", "v2"}

NoExc == [type |-> "none", name |-> <<>>, args |-> "none", rc |-> "none", at |-> "none"]

RestartEngine(name, args) ==
    [type |-> "RestartEngine", name |-> name, args |-> args, rc |-> "none", at |-> "branch"]

TerminateEngine(rc) ==
    [type |-> "TerminateEngine", name |-> <<>>, args |-> "none", rc |-> rc, at |-> "branch"]

OtherException ==
    [type |-> "Exception", name |-> <<>>, args |-> "none", rc |-> "none", at |-> "branch"]

WorkflowNotFound(name) ==
    [type |-> "WorkflowNotFoundException", name |-> name, args |-> "none",
     rc |-> "none", at |-> "step"]

Event(ev, fqn, args, depth) == [ev |-> ev, fqn |-> fqn, args |-> args, depth |-> depth]

EgInit ==
    /\ eg_phase = "loop"
    /\ eg_entry \in EngineNames
    /\ eg_args \in EngineArgs
    /\ eg_stack = <<>>
    /\ eg_frames = <<>>
    /\ eg_exc = NoExc
    /\ eg_result = "none"
    /\ eg_log = <<>>
    /\ eg_last = [before |-> <<>>, after |-> <<>>]
    /\ eg_branches = 0

\* _fetch_callable: the cached or imported callable, or WorkflowNotFound.
FetchCallable(fqn) == fqn \in Workflows

\* branch(name, args) up to the invocation of the step: resolve, fetch, push.
BranchCall(name, args) ==
    LET r == Resolve(eg_stack, name)
    IN  /\ eg_branches < MaxBranches
        /\ eg_branches' = eg_branches + 1
        /\ IF r.state = "returned" /\ FetchCallable(r.value)
           THEN /\ eg_stack' = Append(eg_stack, r.value)
                /\ eg_frames' = Append(eg_frames, [fqn |-> r.value, base |-> eg_stack])
                /\ eg_log' = Append(eg_log,
                                    Event("invoke", r.value, args, Len(eg_frames) + 1))
                /\ UNCHANGED <<eg_exc, eg_last>>
           ELSE /\ eg_exc' = WorkflowNotFound(IF r.state = "returned" THEN r.value ELSE name)
                /\ eg_last' = [before |-> eg_stack, after |-> eg_stack]
                /\ UNCHANGED <<eg_stack, eg_frames, eg_log>>

\* Engine.run: one turn of the loop calls context.branch(t_entry, t_args).
EgRunBranch ==
    /\ eg_phase = "loop"
    /\ eg_phase' = "in_branch"
    /\ BranchCall(eg_entry, eg_args)
    /\ UNCHANGED <<eg_entry, eg_args, eg_result>>
    /\ UNCHANGED not_eg

\* The running step calls ctx.branch(name, args).
EgStepBranch(name, args) ==
    /\ eg_phase = "in_branch"
    /\ eg_frames # <<>>
    /\ eg_exc = NoExc
    /\ BranchCall(name, args)
    /\ UNCHANGED <<eg_phase, eg_entry, eg_args, eg_result>>
    /\ UNCHANGED not_eg

\* The finally of branch: self._stack.pop()
Pop(stack) == SubSeq(stack, 1, Len(stack) - 1)

\* The running step returns v: its branch pops and returns rc; Engine.run
\* returns what the outermost branch returned.
EgStepReturn(v) ==
    LET frame == eg_frames[Len(eg_frames)]
    IN  /\ eg_phase = "in_branch"
        /\ eg_frames # <<>>
        /\ eg_exc = NoExc
        /\ eg_stack' = Pop(eg_stack)
        /\ eg_frames' = Pop(eg_frames)
        /\ eg_last' = [before |-> frame.base, after |-> Pop(eg_stack)]
        /\ eg_log' = Append(eg_log, Event("return", frame.fqn, v, Len(eg_frames)))
        /\ IF Len(eg_frames) = 1
           THEN eg_phase' = "returned" /\ eg_result' = v
           ELSE UNCHANGED <<eg_phase, eg_result>>
        /\ UNCHANGED <<eg_entry, eg_args, eg_exc, eg_branches>>
        /\ UNCHANGED not_eg

\* The running step raises e.
EgStepRaise(e) ==
    /\ eg_phase = "in_branch"
    /\ eg_frames # <<>>
    /\ eg_exc = NoExc
    /\ eg_exc' = e
    /\ eg_log' = Append(eg_log,
                        Event(e.type, e.name, IF e.type = "TerminateEngine" THEN e.rc ELSE e.args,
                              Len(eg_frames)))
    /\ UNCHANGED <<eg_phase, eg_entry, eg_args, eg_stack, eg_frames, eg_result, eg_last,
                   eg_branches>>
    /\ UNCHANGED not_eg

\* A step whose branch call raised lets the exception through, or handles an
\* exception that is not control flow and goes on.
EgStepHandles(catch) ==
    /\ eg_phase = "in_branch"
    /\ eg_frames # <<>>
    /\ eg_exc.at = "step"
    /\ catch => eg_exc.type \in {"WorkflowNotFoundException", "Exception"}
    /\ eg_exc' = IF catch THEN NoExc ELSE [eg_exc EXCEPT !.at = "branch"]
    /\ UNCHANGED <<eg_phase, eg_entry, eg_args, eg_stack, eg_frames, eg_result, eg_log,
                   eg_last, eg_branches>>
    /\ UNCHANGED not_eg

\* A branch that wraps whatever its step raised, TerminateEngine included.
BranchExceptWraps(e) == [OtherException EXCEPT !.at = e.at]

\* What branch's except clause makes of the exception of its step: the name of
\* a RestartEngine is resolved on the stack as it is, the step's fqn on top.
BranchExcept(e) ==
    LET r == Resolve(eg_stack, e.name)
    IN  IF e.type # "RestartEngine" THEN e
        ELSE IF r.state = "returned" THEN [e EXCEPT !.name = r.value]
        ELSE WorkflowNotFound(e.name)

\* A branch that pops on normal return only: no finally.
EgBranchUnwindNoFinally ==
    LET frame == eg_frames[Len(eg_frames)]
    IN  /\ eg_phase = "in_branch"
        /\ eg_frames # <<>>
        /\ eg_exc.at = "branch"
        /\ eg_exc' = [BranchExcept(eg_exc) EXCEPT !.at = "step"]
        /\ eg_frames' = Pop(eg_frames)
        /\ eg_last' = [before |-> frame.base, after |-> eg_stack]
        /\ UNCHANGED <<eg_phase, eg_entry, eg_args, eg_stack, eg_result, eg_log, eg_branches>>
        /\ UNCHANGED not_eg

\* branch's except and finally for an exception of its step.
EgBranchUnwind ==
    LET frame == eg_frames[Len(eg_frames)]
    IN  /\ eg_phase = "in_branch"
        /\ eg_frames # <<>>
        /\ eg_exc.at = "branch"
        /\ eg_exc' = [BranchExcept(eg_exc) EXCEPT !.at = "step"]
        /\ eg_stack' = Pop(eg_stack)
        /\ eg_frames' = Pop(eg_frames)
        /\ eg_last' = [before |-> frame.base, after |-> Pop(eg_stack)]
        /\ UNCHANGED <<eg_phase, eg_entry, eg_args, eg_result, eg_log, eg_branches>>
        /\ UNCHANGED not_eg

\* Engine.run's except clauses for an exception of context.branch.
EgRunExcept ==
    /\ eg_phase = "in_branch"
    /\ eg_frames = <<>>
    /\ eg_exc # NoExc
    /\ eg_exc' = NoExc
    /\ IF eg_exc.type = "RestartEngine"
       THEN /\ eg_entry' = eg_exc.name
            /\ eg_args' = eg_exc.args
            /\ eg_phase' = "loop"
            /\ UNCHANGED eg_result
       ELSE IF eg_exc.type = "TerminateEngine"
       THEN /\ eg_phase' = "returned"
            /\ eg_result' = eg_exc.rc
            /\ UNCHANGED <<eg_entry, eg_args>>
       ELSE /\ eg_phase' = "raised"
            /\ eg_result' = eg_exc.type
            /\ UNCHANGED <<eg_entry, eg_args>>
    /\ UNCHANGED <<eg_stack, eg_frames, eg_log, eg_last, eg_branches>>
    /\ UNCHANGED not_eg

EgNext ==
    \/ EgRunBranch
    \/ \E name \in EngineNames, args \in EngineArgs : EgStepBranch(name, args)
    \/ \E v \in EngineValues : EgStepReturn(v)
    \/ \E name \in EngineNames, args \in EngineArgs : EgStepRaise(RestartEngine(name, args))
    \/ \E rc \in EngineValues : EgStepRaise(TerminateEngine(rc))
    \/ EgStepRaise(OtherException)
    \/ \E catch \in BOOLEAN : EgStepHandles(catch)
    \/ EgBranchUnwind
    \/ EgRunExcept

(***************************************************************************)
(* Frame codec (net/protocol.py): send_packet and receive_packet on one    *)
(* stream. An octet is a number in 0..255; the JSON text of a packet is    *)
(* one octet for packet_type, one for cookie and the octets of result.     *)
(***************************************************************************)
\* The octet that stands for each packet type, cookie and character: its
\* place in the sequence.
FcCode ==
    [packet_type |-> <<"REGISTER", "SHUTDOWN", "RUN", "CANCEL", "RESULT">>,
     cookie |-> <<"none", "c1", "c2">>,
     char |-> <<"x", "y">>]

\* The packets sent in the model.
FcPackets ==
    [packet_type : {"RUN", "RESULT"}, cookie : {"none", "c1"},
     result : UNION {[1..n -> {"x"}] : n \in 0..MaxResultLen}]

\* receive_packet's None.
FcNone == [packet_type |-> "NONE", cookie |-> "none", result |-> <<>>]

\* request.model_dump_json().encode("utf-8")
DumpJson(p) ==
    LET Index(s, e) == CHOOSE i \in DOMAIN s : s[i] = e
    IN  <<Index(FcCode.packet_type, p.packet_type), Index(FcCode.cookie, p.cookie)>>
            \o [i \in 1..Len(p.result) |-> Index(FcCode.char, p.result[i])]

\* SocketPacket.model_validate_json(msg_str.decode("utf-8")): the packet, or
\* FcNone where validation raises.
ValidateJson(b) ==
    IF /\ Len(b) >= 2
       /\ b[1] \in DOMAIN FcCode.packet_type
       /\ b[2] \in DOMAIN FcCode.cookie
       /\ \A i \in 3..Len(b) : b[i] \in DOMAIN FcCode.char
    THEN [packet_type |-> FcCode.packet_type[b[1]], cookie |-> FcCode.cookie[b[2]],
          result |-> [i \in 1..(Len(b) - 2) |-> FcCode.char[b[i + 2]]]]
    ELSE FcNone

\* struct.pack("!I", length): four octets, the most significant first.
PackLength(length) ==
    <<(length \div 16777216) % 256, (length \div 65536) % 256,
      (length \div 256) % 256, length % 256>>

\* struct.unpack("!I", length_bytes)[0]
UnpackLength(b) == b[1] * 16777216 + b[2] * 65536 + b[3] * 256 + b[4]

\* A send_packet that packs the length with the least significant octet first.
FrameLittleEndian(p) ==
    LET b == PackLength(Len(DumpJson(p)))
    IN  <<b[4], b[3], b[2], b[1]>> \o DumpJson(p)

\* The octets send_packet writes: length_bytes + msg_bytes.
Frame(p) == PackLength(Len(DumpJson(p))) \o DumpJson(p)

FcInit ==
    /\ fc_stream = <<>>
    /\ fc_eof = FALSE
    /\ fc_frames = <<>>
    /\ fc_recv = <<>>

\* send_packet(writer, request) on an open stream: returns true.
FcSendPacket(p) ==
    /\ ~fc_eof
    /\ Len(fc_frames) < MaxFrames
    /\ Len(DumpJson(p)) \div 65536 < 65536    \* the length fits "!I"
    /\ fc_stream' = fc_stream \o Frame(p)
    /\ fc_frames' = Append(fc_frames, [packet |-> p, octets |-> Frame(p)])
    /\ UNCHANGED <<fc_eof, fc_recv>>
    /\ UNCHANGED not_fc

\* The writer's end closes the stream.
FcClose ==
    /\ ~fc_eof
    /\ fc_eof' = TRUE
    /\ UNCHANGED <<fc_stream, fc_frames, fc_recv>>
    /\ UNCHANGED not_fc

\* receive_packet(reader): readexactly(4), readexactly(length), validation;
\* None when the stream ends first or validation raises. The caller stops
\* reading at None.
FcReceivePacket ==
    LET length == UnpackLength(SubSeq(fc_stream, 1, 4))
        whole == Len(fc_stream) >= 4 /\ Len(fc_stream) >= 4 + length
    IN  /\ \A i \in DOMAIN fc_recv : fc_recv[i].packet # FcNone
        /\ whole \/ fc_eof
        /\ IF whole
           THEN /\ fc_recv' = Append(fc_recv,
                                     [packet |-> ValidateJson(SubSeq(fc_stream, 5, 4 + length)),
                                      length |-> length])
                /\ fc_stream' = SubSeq(fc_stream, 5 + length, Len(fc_stream))
           ELSE /\ fc_recv' = Append(fc_recv, [packet |-> FcNone, length |-> 0])
                /\ fc_stream' = <<>>
        /\ UNCHANGED <<fc_eof, fc_frames>>
        /\ UNCHANGED not_fc

FcNext ==
    \/ \E p \in FcPackets : FcSendPacket(p)
    \/ FcClose
    \/ FcReceivePacket

(***************************************************************************)
(* The two TaskManagers side by side: each item is handed to both, the     *)
(* broker-attached one through _incoming_packet, the bus-attached one      *)
(* through queue(), and each engine task comes to its end in both.         *)
(***************************************************************************)
\* One item for both, once the bus's loop has started: the worker's loop,
\* when its incoming wait is armed,
\* reads it in its next pass (_process_server_packet, then the restart of
\* the wait or dying); queue() takes a permit and the bus's loop does the
\* same. A loop whose wait is not armed leaves the item on its queue.
LsFeed(type, c) ==
    LET wp == WorkPacket(type, c, type = "RUN")
        bp == BusPacket(type, c, IF type = "RUN" THEN "set" ELSE "empty")
        wres == WProcessServerPacket(w_capacity, w_tasks, wp)
        bres == BProcessServerPacket(b_capacity, b_tasks, bp)
        wrearm == wres.restart /\ ~w_dying
        brearm == bres.restart /\ ~b_dying
    IN  /\ w_packets < MaxPackets
        /\ b_loop # "created"
        /\ b_sem > 0
        /\ w_packets' = w_packets + 1
        /\ b_sem' = b_sem - 1
        /\ b_rets' = Append(b_rets, ~b_dying)
        /\ IF w_loop = "running" /\ w_t_incoming = "armed"
           THEN /\ w_tasks' = wres.tasks
                /\ w_fatal' = wres.fatal
                /\ w_t_incoming' = IF wrearm THEN "armed" ELSE "none"
                /\ w_dying' = (w_dying \/ ~wrearm)
                /\ UNCHANGED w_queue
           ELSE /\ w_queue' = Append(w_queue, wp)
                /\ UNCHANGED <<w_tasks, w_fatal, w_t_incoming, w_dying>>
        /\ IF b_dying
           THEN UNCHANGED <<b_queue, b_tasks, b_t_incoming, b_dying>>
           ELSE IF b_loop = "running" /\ b_t_incoming = "armed"
           THEN /\ b_tasks' = bres.tasks
                /\ b_t_incoming' = IF brearm THEN "armed" ELSE "none"
                /\ b_dying' = (b_dying \/ ~brearm)
                /\ UNCHANGED b_queue
           ELSE /\ b_queue' = Append(b_queue, bp)
                /\ UNCHANGED <<b_tasks, b_t_incoming, b_dying>>
        /\ UNCHANGED <<w_capacity, w_loop, w_t_dying, w_connected, w_eof, w_outcomes, w_sent>>
        /\ UNCHANGED <<b_capacity, b_loop, b_t_dying, b_call, b_call_packet>>
        /\ UNCHANGED not_tm

\* The engine task of c comes to its end in both and each loop, if it is
\* still running, makes its pass over the wrapper: the cookie is removed
\* (and the bus releases a permit), or a cancelled task raises out of
\* t.result() and ends the loop.
LsComplete(c, outcome) ==
    LET wpop == w_loop = "running" /\ outcome # "cancelled"
        bpop == b_loop = "running" /\ outcome # "cancelled"
        ended == IF outcome = "cancelled" THEN "cancelled" ELSE "ended"
    IN  /\ c \in DOMAIN w_tasks /\ c \in DOMAIN b_tasks
        /\ w_tasks[c] = b_tasks[c]
        /\ \/ w_tasks[c] = "running" /\ outcome \in EngineOutcomes
           \/ w_tasks[c] = "cancelling" /\ outcome \in CancelOutcomes
        /\ w_outcomes' = [w_outcomes EXCEPT ![c] = Append(@, outcome)]
        /\ w_sent' = [w_sent EXCEPT ![c] = @ \o WRunEngineResult(outcome)]
        /\ w_tasks' = IF wpop THEN [d \in (DOMAIN w_tasks) \ {c} |-> w_tasks[d]]
                      ELSE [w_tasks EXCEPT ![c] = ended]
        /\ w_loop' = IF w_loop = "running" /\ outcome = "cancelled" THEN "crashed" ELSE w_loop
        /\ b_tasks' = IF bpop THEN [d \in (DOMAIN b_tasks) \ {c} |-> b_tasks[d]]
                      ELSE [b_tasks EXCEPT ![c] = ended]
        /\ b_loop' = IF b_loop = "running" /\ outcome = "cancelled" THEN "crashed" ELSE b_loop
        /\ b_sem' = IF bpop THEN b_sem + 1 ELSE b_sem
        /\ UNCHANGED <<w_capacity, w_queue, w_dying, w_t_dying, w_t_incoming, w_connected,
                       w_eof, w_packets, w_fatal>>
        /\ UNCHANGED <<b_capacity, b_queue, b_dying, b_t_dying, b_t_incoming, b_call,
                       b_call_packet, b_rets>>
        /\ UNCHANGED not_tm

(***************************************************************************)
(* Client.receive_packet (net/client/client.py) on the incoming_queue of   *)
(* its connection. A get() is "call" while the receive_packet that made it *)
(* is in progress and "orphan" once that call has returned without it.     *)
(***************************************************************************)
ClInit ==
    /\ cl_queue = <<>>
    /\ cl_getters = <<>>
    /\ cl_woken = <<>>
    /\ cl_call = "idle"
    /\ cl_returned = <<>>
    /\ cl_put = 0

\* receive_packet(timeout) up to its first wait: the get(), a task of its
\* own when there is a timeout, returns the first item, or waits on a new
\* getter when the queue is empty.
ClReceive(timeout) ==
    /\ cl_call = "idle"
    /\ Len(cl_returned) < MaxReceives
    /\ IF cl_queue # <<>>
       THEN /\ cl_returned' = Append(cl_returned, Head(cl_queue))
            /\ cl_queue' = Tail(cl_queue)
            /\ UNCHANGED <<cl_getters, cl_call>>
       ELSE /\ cl_call' = IF timeout THEN "timed" ELSE "untimed"
            /\ cl_getters' = Append(cl_getters, "call")
            /\ UNCHANGED <<cl_queue, cl_returned>>
    /\ UNCHANGED <<cl_woken, cl_put>>
    /\ UNCHANGED not_cl

\* asyncio.wait returns on the timeout with the get() task not done:
\* receive_packet returns None and leaves the task as it is.
ClTimeout ==
    /\ cl_call = "timed"
    /\ cl_call' = "idle"
    /\ cl_returned' = Append(cl_returned, 0)
    /\ cl_getters' = [i \in DOMAIN cl_getters |->
                         IF cl_getters[i] = "call" THEN "orphan" ELSE cl_getters[i]]
    /\ cl_woken' = [i \in DOMAIN cl_woken |->
                       IF cl_woken[i] = "call" THEN "orphan" ELSE cl_woken[i]]
    /\ UNCHANGED <<cl_queue, cl_put>>
    /\ UNCHANGED not_cl

\* The multiplexor's conn.incoming_queue.put(packet): the item is queued and
\* the first getter is woken.
ClPut ==
    /\ cl_put < MaxPackets
    /\ cl_put' = cl_put + 1
    /\ cl_queue' = Append(cl_queue, cl_put + 1)
    /\ IF cl_getters # <<>>
       THEN /\ cl_woken' = Append(cl_woken, Head(cl_getters))
            /\ cl_getters' = Tail(cl_getters)
       ELSE UNCHANGED <<cl_getters, cl_woken>>
    /\ UNCHANGED <<cl_call, cl_returned>>
    /\ UNCHANGED not_cl

\* A get() that is ready runs: it takes the first item, which its
\* receive_packet returns if that call is still in progress, or it waits on
\* a new getter when the queue is empty.
ClGet ==
    /\ cl_woken # <<>>
    /\ cl_woken' = Tail(cl_woken)
    /\ IF cl_queue = <<>>
       THEN /\ cl_getters' = Append(cl_getters, Head(cl_woken))
            /\ UNCHANGED <<cl_queue, cl_call, cl_returned>>
       ELSE /\ cl_queue' = Tail(cl_queue)
            /\ UNCHANGED cl_getters
            /\ IF Head(cl_woken) = "call"
               THEN /\ cl_call' = "idle"
                    /\ cl_returned' = Append(cl_returned, Head(cl_queue))
               ELSE UNCHANGED <<cl_call, cl_returned>>
    /\ UNCHANGED cl_put
    /\ UNCHANGED not_cl

(***************************************************************************)
(* EngineContext.branch called twice by one step, the calls running        *)
(* together (core/engine/engine.py). A call runs from its start to the     *)
(* first suspension of its step without interruption: _resolve, the        *)
(* uncontended lock of _fetch_callable and the append do not suspend.      *)
(***************************************************************************)
BranchCalls == {1, 2}

NotSeen == [name |-> <<>>, result |-> Raised(<<>>)]

\* What _resolve reads: the fqns of self._stack.
StackFqns == [k \in DOMAIN cb_stack |-> cb_stack[k].fqn]

\* The step b.a.a.a, invoked by Engine.run, is running and about to start the
\* two calls: its fqn is the stack.
CbInit ==
    /\ cb_stack = <<[fqn |-> <<"b", ".", "a", ".", "a", ".", "a">>, by |-> 0]>>
    /\ cb_pc = [i \in BranchCalls |-> "new"]
    /\ cb_own = [i \in BranchCalls |-> <<>>]
    /\ cb_seen = [i \in BranchCalls |-> NotSeen]
    /\ cb_popped = [i \in BranchCalls |-> -1]

\* branch(name) of call i up to the first suspension of its step: resolve,
\* fetch, push; WorkflowNotFound leaves before the push.
CbBranch(i, name) ==
    LET r == Resolve(StackFqns, name)
    IN  /\ cb_pc[i] = "new"
        /\ IF r.state = "returned" /\ FetchCallable(r.value)
           THEN /\ cb_stack' = Append(cb_stack, [fqn |-> r.value, by |-> i])
                /\ cb_own' = [cb_own EXCEPT ![i] = r.value]
                /\ cb_pc' = [cb_pc EXCEPT ![i] = "running"]
           ELSE /\ cb_pc' = [cb_pc EXCEPT ![i] = "failed"]
                /\ UNCHANGED <<cb_stack, cb_own>>
        /\ UNCHANGED <<cb_seen, cb_popped>>
        /\ UNCHANGED not_cb

\* The step of call i resumes and calls branch(name) itself: the name is
\* resolved on the stack as it is; a step that is found returns without
\* suspending and its frame is popped again, WorkflowNotFound is handled by
\* the calling step.
CbStepBranch(i, name) ==
    /\ cb_pc[i] = "running"
    /\ cb_seen[i] = NotSeen
    /\ cb_seen' = [cb_seen EXCEPT ![i] = [name |-> name, result |-> Resolve(StackFqns, name)]]
    /\ UNCHANGED <<cb_stack, cb_pc, cb_own, cb_popped>>
    /\ UNCHANGED not_cb

\* The step of call i returns: the finally of its branch pops the stack.
CbStepReturn(i) ==
    /\ cb_pc[i] = "running"
    /\ cb_popped' = [cb_popped EXCEPT ![i] = cb_stack[Len(cb_stack)].by]
    /\ cb_stack' = Pop(cb_stack)
    /\ cb_pc' = [cb_pc EXCEPT ![i] = "done"]
    /\ UNCHANGED <<cb_own, cb_seen>>
    /\ UNCHANGED not_cb

(***************************************************************************)
(* The server transports with two connections (net/transports/             *)
(* socket_server.py, tcp_server.py, grpc_server.py, http_server.py). A     *)
(* task runs from one suspension to the next without interruption:         *)
(* acquiring a free asyncio.Lock and putting on an unbounded asyncio.Queue *)
(* do not suspend, acquiring a held lock does. A lock that is held at a    *)
(* suspension is held by a task that waits for a lock itself.              *)
(***************************************************************************)
Conns == {1, 2}

Transports == {"workers", "clients"}

\* The session objects: 1 and 2 are made per connection, 0 is the one that
\* the class attributes of grpc_server.ClientSession hold.
SessionObjects == 0 .. 2

NoSession == [on |-> "none", id |-> -1, obj |-> -1]

TxInit ==
    /\ tx_binding \in {"socket", "grpc", "http"}
    /\ tx_session = [k \in Conns |-> NoSession]
    /\ tx_state = [k \in Conns |-> "none"]
    /\ tx_lock = [t \in Transports |-> 0]
    /\ tx_table = [t \in Transports |-> [id \in SessionObjects |-> 0]]
    /\ tx_death = [o \in SessionObjects |-> FALSE]
    /\ tx_queue = [o \in SessionObjects |-> <<>>]
    /\ tx_getters = [o \in SessionObjects |-> <<>>]
    /\ tx_wire = [k \in Conns |-> <<>>]
    /\ tx_reads = [k \in Conns |-> 0]
    /\ tx_sent = 0

TxRest == TxInit /\ tx_binding = "socket"

\* ClientConnection(...) and the http ClientSession() make a connection_id,
\* a death_signal and an outgoing_queue per instance (default_factory); the
\* defaults of grpc_server.ClientSession are evaluated once, with the class.
NewSession(k, t) ==
    IF tx_binding = "grpc" THEN [on |-> t, id |-> 0, obj |-> 0]
    ELSE [on |-> t, id |-> k, obj |-> k]

\* The body of send_packet(connection_id, packet) under the lock of
\* transport t: the outgoing queues afterwards.
Enqueue(table, t, id, packet) ==
    IF table[t][id] = 0 THEN tx_queue
    ELSE [tx_queue EXCEPT ![tx_session[table[t][id]].obj] = Append(@, packet)]

\* A connection is accepted on transport t: its session is made, registered
\* under the lock, on_new is called and the loop starts its tasks.
TxAccept(k, t) ==
    LET s == NewSession(k, t)
    IN  /\ tx_state[k] = "none"
        /\ tx_session' = [tx_session EXCEPT ![k] = s]
        /\ IF tx_lock[t] # 0
           THEN /\ tx_state' = [tx_state EXCEPT ![k] = "accept_blocked"]
                /\ UNCHANGED <<tx_table, tx_getters>>
           ELSE /\ tx_state' = [tx_state EXCEPT ![k] = "open"]
                /\ tx_table' = [tx_table EXCEPT ![t][s.id] = k]
                /\ tx_getters' = [tx_getters EXCEPT ![s.obj] = Append(@, k)]
        /\ UNCHANGED <<tx_binding, tx_lock, tx_death, tx_queue, tx_wire, tx_reads, tx_sent>>
        /\ UNCHANGED not_tx

\* The broker, outside any callback, calls send_packet with the id that on_new
\* gave it for connection j.
TxSendPacket(j) ==
    LET s == tx_session[j]
    IN  /\ tx_state[j] \in {"open", "ended"}
        /\ tx_sent < MaxServerSends
        /\ tx_lock[s.on] = 0
        /\ tx_sent' = tx_sent + 1
        /\ tx_queue' = Enqueue(tx_table, s.on, s.id, j)
        /\ UNCHANGED <<tx_binding, tx_session, tx_state, tx_lock, tx_table, tx_death,
                       tx_getters, tx_wire, tx_reads>>
        /\ UNCHANGED not_tx

\* The broker calls close_connection with the id of connection j.
TxCloseConnection(j) ==
    LET s == tx_session[j]
    IN  /\ tx_state[j] \in {"open", "ended"}
        /\ tx_lock[s.on] = 0
        /\ tx_table[s.on][s.id] # 0
        /\ tx_death' = [tx_death EXCEPT ![tx_session[tx_table[s.on][s.id]].obj] = TRUE]
        /\ UNCHANGED <<tx_binding, tx_session, tx_state, tx_lock, tx_table, tx_queue,
                       tx_getters, tx_wire, tx_reads, tx_sent>>
        /\ UNCHANGED not_tx

\* The peer of connection k closes: the loop sets the session's death_signal.
TxPeerClose(k) ==
    /\ tx_state[k] = "open"
    /\ ~tx_death[tx_session[k].obj]
    /\ tx_death' = [tx_death EXCEPT ![tx_session[k].obj] = TRUE]
    /\ UNCHANGED <<tx_binding, tx_session, tx_state, tx_lock, tx_table, tx_queue,
                   tx_getters, tx_wire, tx_reads, tx_sent>>
    /\ UNCHANGED not_tx

\* A packet of connection k is read and on_read is called: _thunk_read of the
\* http binding calls it inside `async with self._lock`, the loops of the
\* other bindings call it with no lock held. on_read answers by send_packet
\* to connection j (j = k: on the same connection), or not at all (j = 0).
\* An http stream reads the one packet of its request.
TxRead(k, j) ==
    LET t == tx_session[k].on
        locked == tx_binding = "http"
        to == tx_session[j]
        waits == j # 0 /\ (tx_lock[to.on] # 0 \/ (locked /\ to.on = t))
    IN  /\ tx_state[k] = "open"
        /\ ~tx_death[tx_session[k].obj]
        /\ tx_reads[k] < (IF locked THEN 1 ELSE MaxServerReads)
        /\ j # 0 => tx_state[j] \in {"open", "ended"}
        /\ tx_reads' = [tx_reads EXCEPT ![k] = @ + 1]
        /\ IF locked /\ tx_lock[t] # 0
           THEN /\ tx_state' = [tx_state EXCEPT ![k] = "read_blocked"]
                /\ UNCHANGED <<tx_lock, tx_queue>>
           ELSE IF waits
           THEN /\ tx_state' = [tx_state EXCEPT ![k] = "read_blocked"]
                /\ tx_lock' = IF locked THEN [tx_lock EXCEPT ![t] = k] ELSE tx_lock
                /\ UNCHANGED tx_queue
           ELSE /\ tx_queue' = IF j = 0 THEN tx_queue ELSE Enqueue(tx_table, to.on, to.id, j)
                /\ UNCHANGED <<tx_state, tx_lock>>
        /\ UNCHANGED <<tx_binding, tx_session, tx_table, tx_death, tx_getters, tx_wire,
                       tx_sent>>
        /\ UNCHANGED not_tx

\* t_write of connection k, the first that waits on its queue, gets the next
\* packet; the loop writes it to the peer and waits on the queue again.
TxWrite(k) ==
    LET o == tx_session[k].obj
    IN  /\ tx_state[k] = "open"
        /\ tx_getters[o] # <<>>
        /\ Head(tx_getters[o]) = k
        /\ tx_queue[o] # <<>>
        /\ tx_wire' = [tx_wire EXCEPT ![k] = Append(@, Head(tx_queue[o]))]
        /\ tx_queue' = [tx_queue EXCEPT ![o] = Tail(@)]
        /\ tx_getters' = [tx_getters EXCEPT ![o] = Append(Tail(@), k)]
        /\ UNCHANGED <<tx_binding, tx_session, tx_state, tx_lock, tx_table, tx_death,
                       tx_reads, tx_sent>>
        /\ UNCHANGED not_tx

\* The loop of connection k sees its death_signal and ends; under the lock
\* its id is removed from _connections and on_closed is called, which sends
\* to connection j of the other transport (j = 0: sends nothing).
TxClosed(k, j) ==
    LET s == tx_session[k]
        to == tx_session[j]
        table == [tx_table EXCEPT ![s.on][s.id] = 0]
    IN  /\ tx_state[k] = "open"
        /\ tx_death[s.obj]
        /\ j # k
        /\ j # 0 => tx_state[j] # "none" /\ to.on # s.on
        /\ tx_getters' = [tx_getters EXCEPT
                            ![s.obj] = SelectSeq(@, LAMBDA g : g # k)]
        /\ IF tx_lock[s.on] # 0
           THEN /\ tx_state' = [tx_state EXCEPT ![k] = "closed_blocked"]
                /\ UNCHANGED <<tx_lock, tx_table, tx_queue>>
           ELSE IF j # 0 /\ tx_lock[to.on] # 0
           THEN /\ tx_state' = [tx_state EXCEPT ![k] = "closed_blocked"]
                /\ tx_lock' = [tx_lock EXCEPT ![s.on] = k]
                /\ tx_table' = table
                /\ UNCHANGED tx_queue
           ELSE /\ tx_state' = [tx_state EXCEPT ![k] = "ended"]
                /\ tx_table' = table
                /\ tx_queue' = IF j = 0 THEN tx_queue ELSE Enqueue(table, to.on, to.id, j)
                /\ UNCHANGED tx_lock
        /\ UNCHANGED <<tx_binding, tx_session, tx_death, tx_wire, tx_reads, tx_sent>>
        /\ UNCHANGED not_tx

(***************************************************************************)
(* Specifications: one per component, the others at rest.                  *)
(***************************************************************************)
WRest == WInit /\ w_capacity = 1

BRest == BInit /\ b_capacity = 1

CtRest == CtInit /\ ct_kind = "socket"

EgRest == EgInit /\ eg_entry = <<"a", ".", "a">> /\ eg_args = "x1"

EnRest == en_stack = <<>> /\ en_name = <<>> /\ en_result = EnPending /\ en_again = EnPending

MuxNext ==
    \/ \E id \in ConnIds : Register(id)
    \/ \E id \in ConnIds : Release(id)
    \/ \E id \in ConnIds, type \in {"RUN", "CANCEL"}, c \in Cookies : SendPacket(id, type, c)
    \/ \E id \in ConnIds : SendPacketUnknown(id)
    \/ \E c \in Cookies, rc \in {"OK", "CANCELLED"} : IncomingResult(c, rc)
    \/ \E c \in Cookies : IncomingOther(c)
    \/ PeerGone
    \/ IncomingEOF
    \/ IncomingEOFAgain

MuxSpecInit == MuxInit /\ WRest /\ BRest /\ CtRest /\ SvInit /\ HsInit /\ EnRest /\ EgRest /\ FcInit /\ ClInit /\ CbInit /\ TxRest /\ variant = "none"

MuxSpec == MuxSpecInit /\ [][MuxNext]_vars

\* The transport eventually delivers the peer's RESULT for a cookie or EOF.
MuxFairSpec ==
    /\ MuxSpec
    /\ \A c \in Cookies :
          WF_vars((\E rc \in {"OK", "CANCELLED"} : IncomingResult(c, rc)) \/ IncomingEOF)

WorkerSpecInit == MuxInit /\ WInit /\ BRest /\ CtRest /\ SvInit /\ HsInit /\ EnRest /\ EgRest /\ FcInit /\ ClInit /\ CbInit /\ TxRest /\ variant = "worker"

WorkerSpec == WorkerSpecInit /\ [][WNext]_vars

BusSpecInit == MuxInit /\ WRest /\ BInit /\ CtRest /\ SvInit /\ HsInit /\ EnRest /\ EgRest /\ FcInit /\ ClInit /\ CbInit /\ TxRest /\ variant = "bus"

BusSpec == BusSpecInit /\ [][BNext]_vars

ClientTransportInit == MuxInit /\ WRest /\ BRest /\ CtInit /\ SvInit /\ HsInit /\ EnRest /\ EgRest /\ FcInit /\ ClInit /\ CbInit /\ TxRest /\ variant = "none"

ClientTransportSpec == ClientTransportInit /\ [][CtNext]_vars

ServerTransportInit == MuxInit /\ WRest /\ BRest /\ CtRest /\ SvInit /\ HsInit /\ EnRest /\ EgRest /\ FcInit /\ ClInit /\ CbInit /\ TxRest /\ variant = "none"

ServerTransportSpec == ServerTransportInit /\ [][SvNext]_vars

\* Either TaskManager: the worker command runs the broker-attached one, the
\* serve command the bus-attached one.
HttpStreamInit == MuxInit /\ WRest /\ BRest /\ CtRest /\ SvInit /\ HsInit /\ EnRest /\ EgRest /\ FcInit /\ ClInit /\ CbInit /\ TxRest /\ variant = "none"

HttpStreamSpec == HttpStreamInit /\ [][HsNext]_vars

\* The event loop keeps running what is ready to run.
HttpStreamFairSpec == HttpStreamSpec /\ WF_vars(HsLoop)

ResolveInit == MuxInit /\ WRest /\ BRest /\ CtRest /\ SvInit /\ HsInit /\ EnInit /\ EgRest /\ FcInit /\ ClInit /\ CbInit /\ TxRest /\ variant = "none"

ResolveSpec == ResolveInit /\ [][EnNext]_vars

EngineInit == MuxInit /\ WRest /\ BRest /\ CtRest /\ SvInit /\ HsInit /\ EnRest /\ EgInit /\ FcInit /\ ClInit /\ CbInit /\ TxRest /\ variant = "none"

EngineSpec == EngineInit /\ [][EgNext]_vars

FrameCodecInit == MuxInit /\ WRest /\ BRest /\ CtRest /\ SvInit /\ HsInit /\ EnRest /\ EgRest /\ FcInit /\ ClInit /\ CbInit /\ TxRest /\ variant = "none"

FrameCodecSpec == FrameCodecInit /\ [][FcNext]_vars

ReceiveInit == MuxInit /\ WRest /\ BRest /\ CtRest /\ SvInit /\ HsInit /\ EnRest /\ EgRest /\ FcInit /\ ClInit /\ CbInit /\ TxRest /\ variant = "none"

ReceiveSpec ==
    ReceiveInit /\ [][(\E timeout \in BOOLEAN : ClReceive(timeout)) \/ ClTimeout \/ ClPut \/ ClGet]_vars

ConcurrentInit == MuxInit /\ WRest /\ BRest /\ CtRest /\ SvInit /\ HsInit /\ EnRest /\ EgRest /\ FcInit /\ ClInit /\ CbInit /\ TxRest /\ variant = "none"

ConcurrentSpec ==
    ConcurrentInit
    /\ [][\/ \E i \in BranchCalls, name \in EngineNames : CbBranch(i, name)
          \/ \E i \in BranchCalls, name \in EngineNames : CbStepBranch(i, name)
          \/ \E i \in BranchCalls : CbStepReturn(i)]_vars

ServerBindingsInit == MuxInit /\ WRest /\ BRest /\ CtRest /\ SvInit /\ HsInit /\ EnRest /\ EgRest /\ FcInit /\ ClInit /\ CbInit /\ TxInit /\ variant = "none"

ServerBindingsSpec ==
    ServerBindingsInit
    /\ [][\/ \E k \in Conns, t \in Transports : TxAccept(k, t)
          \/ \E j \in Conns : TxSendPacket(j)
          \/ \E j \in Conns : TxCloseConnection(j)
          \/ \E k \in Conns : TxPeerClose(k)
          \/ \E k \in Conns, j \in Conns \cup {0} : TxRead(k, j)
          \/ \E k \in Conns : TxWrite(k)
          \/ \E k \in Conns, j \in Conns \cup {0} : TxClosed(k, j)]_vars

\* The broker's two transports: connection 1 is a worker's, 2 a client's.
TwoTransportsSpec ==
    ServerBindingsInit
    /\ [][\/ TxAccept(1, "workers")
          \/ TxAccept(2, "clients")
          \/ \E j \in Conns : TxSendPacket(j)
          \/ \E j \in Conns : TxCloseConnection(j)
          \/ \E k \in Conns : TxPeerClose(k)
          \/ \E k \in Conns, j \in Conns \cup {0} : TxRead(k, j)
          \/ \E k \in Conns : TxWrite(k)
          \/ \E k \in Conns, j \in Conns \cup {0} : TxClosed(k, j)]_vars

\* How many cookies are outstanding on the worker: the RUN packets it has
\* not read yet and the invocations that have sent no RESULT.
OutstandingOnWorker ==
    Cardinality({i \in DOMAIN w_queue : w_queue[i].packet_type = "RUN"})
        + Cardinality({c \in DOMAIN w_tasks : w_tasks[c] # "ended"})

\* The broker forwards a packet to the worker: a RUN only while fewer than N
\* cookies are outstanding on it.
BrokerForwards(packet) ==
    /\ packet.packet_type = "RUN" => OutstandingOnWorker < w_capacity
    /\ WIncomingPacket(packet)

\* The worker behind such a broker.
BrokeredWorkerSpec ==
    /\ WorkerSpecInit
    /\ [][\/ \E packet \in WorkerPackets : BrokerForwards(packet)
          \/ WStop
          \/ \E c \in Cookies, outcome \in EngineOutcomes \cup CancelOutcomes :
                WRunEngine(c, outcome)
          \/ \E done \in SUBSET ({"dying", "incoming"} \cup Cookies), popped \in SUBSET Cookies :
                WMultiplexing(done, popped)]_vars

TaskManagerInit == WorkerSpecInit \/ BusSpecInit

TaskManagerNext ==
    \/ variant = "worker" /\ WNext
    \/ variant = "bus" /\ BNext

TaskManagerSpec == TaskManagerInit /\ [][TaskManagerNext]_vars

\* Both TaskManagers with the same capacity, the bus's loop started (its N
\* permits released).
LockstepInit == MuxInit /\ WInit /\ BInit /\ CtRest /\ SvInit /\ HsInit /\ EnRest /\ EgRest /\ FcInit /\ ClInit /\ CbInit /\ TxRest /\ variant = "both" /\ b_capacity = w_capacity

LockstepSpec ==
    /\ LockstepInit
    /\ [][\/ b_loop = "created" /\ BStart
          \/ \E type \in {"RUN", "CANCEL", "SHUTDOWN"}, c \in Cookies : LsFeed(type, c)
          \/ \E c \in Cookies, outcome \in EngineOutcomes \cup CancelOutcomes :
                LsComplete(c, outcome)]_vars

(***************************************************************************)
(* Claims about the Multiplexor                                            *)
(***************************************************************************)
ResultCount(q, c) ==
    Cardinality({i \in 1..Len(q) : q[i].packet_type = "RESULT" /\ q[i].cookie = c})

Outstanding(id) ==
    IF id \in connections THEN {k \in DOMAIN cookies : cookies[k] = id} ELSE {}

\* C1: at most one RESULT for a cookie is ever put on the queue of the
\* connection that originated it, whatever the order of RUN, CANCEL, inbound
\* packets and EOF.
C1_AtMostOneResult ==
    \A id \in ConnIds, c \in Cookies : ResultCount(info[id].incoming_queue, c) <= 1

\* C2: an EOF puts exactly one RESULT(k, BROKER_WENT_AWAY) on the queue of each
\* registered connection for each cookie k outstanding on it and nothing else
\* on any queue, and leaves both maps empty and dead set.
C2_DeathProcess ==
    [][eofs' # eofs =>
        /\ \A id \in ConnIds :
              LET old == info[id].incoming_queue
                  new == info'[id].incoming_queue
              IN  /\ Len(new) = Len(old) + Cardinality(Outstanding(id))
                  /\ SubSeq(new, 1, Len(old)) = old
                  /\ \A k \in Outstanding(id) :
                        \E i \in (Len(old) + 1)..Len(new) :
                            new[i] = SocketPacket("RESULT", k, "BROKER_WENT_AWAY")
        /\ connections' = {}
        /\ cookies' = <<>>
        /\ dead']_vars

\* C2 witness: the scenario of two cookies in flight on one connection when
\* the transport closed.
C2_Witness ==
    /\ dead /\ eofs = 1 /\ connections = {} /\ cookies = <<>>
    /\ \E id \in ConnIds :
          /\ Len(info[id].incoming_queue) = 2
          /\ \A c \in Cookies :
                \E i \in 1..2 :
                    info[id].incoming_queue[i] = SocketPacket("RESULT", c, "BROKER_WENT_AWAY")

\* C3: every cookie send_packet accepted for a connection gets a terminal
\* RESULT on that connection's queue, before or after the death process ran.
C3_EventualResult ==
    \A id \in ConnIds, c \in Cookies :
        (<<id, c>> \in owed) ~> (ResultCount(info[id].incoming_queue, c) >= 1)

(***************************************************************************)
(* Claims about the TaskManagers                                           *)
(***************************************************************************)
Last(q) == q[Len(q)]

\* C4: in both TaskManager variants the tasks map never holds more entries
\* than the declared capacity, whatever packets arrive and however the
\* invocations complete.
C4_TasksWithinCapacity ==
    /\ Cardinality(DOMAIN w_tasks) <= w_capacity
    /\ Cardinality(DOMAIN b_tasks) <= b_capacity

\* The worker's map is full at a capacity above one and the loop has turned
\* down a further packet.
C4_Witness ==
    /\ variant = "worker"
    /\ w_capacity > 1
    /\ Cardinality(DOMAIN w_tasks) = w_capacity
    /\ w_loop = "running"
    /\ w_dying /\ w_t_dying /\ w_t_incoming = "none"

\* Every slot of the bus-attached TaskManager is taken by a running invocation.
SlotsTaken ==
    /\ b_loop = "running"
    /\ ~b_dying
    /\ Cardinality(DOMAIN b_tasks) = b_capacity
    /\ \A c \in DOMAIN b_tasks : b_tasks[c] = "running"

\* C5: with all N slots taken by running invocations, a further queue() call
\* is held back: it returns nothing and enqueues nothing until an invocation
\* has completed.
C5_QueueHeldBack ==
    [][\A packet \in BusPackets :
          (SlotsTaken /\ b_queue = <<>> /\ BQueue(packet)) =>
              (b_call' = "waiting" /\ b_queue' = b_queue /\ b_rets' = b_rets)]_vars

\* The engine task of cookie c, cancelled by a CANCEL packet, comes to its end.
CancelledEnds(c) ==
    /\ c \in DOMAIN w_tasks /\ w_tasks[c] = "cancelling"
    /\ c \in DOMAIN w_tasks' /\ w_tasks'[c] \in Ended

\* C6: when an in-flight invocation is cancelled by CANCEL(c), the worker
\* sends exactly one RESULT for c, with rc CANCELLED, or EXCEPTION if the
\* cancellation raised.
C6_CancelledResult ==
    [][\A c \in Cookies :
          CancelledEnds(c) =>
              \E rc \in {"CANCELLED", "EXCEPTION"} : w_sent'[c] = Append(w_sent[c], rc)]_vars

\* C7: an exception out of a workflow step is captured: it becomes a RESULT
\* EXCEPTION and leaves the loop, dying and the other invocations as they
\* were; the loop's pass over the finished task removes its cookie, leaves
\* dying unset and the loop running with its wait for packets armed.
C7_StepExceptionCaptured ==
    [][\A c \in Cookies :
          /\ WRunEngine(c, "raised") =>
                /\ w_sent'[c] = Append(w_sent[c], "EXCEPTION")
                /\ w_tasks'[c] = "ended"
                /\ UNCHANGED <<w_loop, w_dying, w_t_incoming, w_queue>>
                /\ \A d \in Cookies \ {c} :
                      /\ w_sent'[d] = w_sent[d]
                      /\ d \in DOMAIN w_tasks =>
                            d \in DOMAIN w_tasks' /\ w_tasks'[d] = w_tasks[d]
          /\ (/\ ~w_dying
              /\ w_outcomes[c] # <<>> /\ Last(w_outcomes[c]) = "raised"
              /\ WMultiplexing({c}, {c})) =>
                /\ c \notin DOMAIN w_tasks'
                /\ w_loop' = "running" /\ ~w_dying' /\ w_t_incoming' = "armed"
                /\ \A d \in (DOMAIN w_tasks) \ {c} :
                      d \in DOMAIN w_tasks' /\ w_tasks'[d] = w_tasks[d]]_vars

\* A cookie whose invocation raised runs again under a later RUN, beside an
\* invocation that was in flight throughout.
C7_Witness ==
    /\ variant = "worker"
    /\ w_loop = "running" /\ ~w_dying
    /\ w_outcomes["c1"] = <<"raised">> /\ w_sent["c1"] = <<"EXCEPTION">>
    /\ "c1" \in DOMAIN w_tasks /\ w_tasks["c1"] = "running"
    /\ "c2" \in DOMAIN w_tasks /\ w_tasks["c2"] = "running" /\ w_outcomes["c2"] = <<>>

\* The engine task of cookie c comes to its end without having been cancelled.
Finishes(c) ==
    /\ c \in DOMAIN w_tasks /\ w_tasks[c] = "running"
    /\ c \in DOMAIN w_tasks' /\ w_tasks'[c] \in Ended

\* The RESULTs sent for c change only when its invocation ends, and then by
\* the one RESULT rc(outcome).
OneResult(rc(_)) ==
    \A c \in Cookies :
        IF Finishes(c)
        THEN w_sent'[c] = Append(w_sent[c], rc(Last(w_outcomes'[c])))
        ELSE CancelledEnds(c) \/ w_sent'[c] = w_sent[c]

RcAsStated(outcome) == IF outcome = "raised" THEN "EXCEPTION" ELSE "OK"

RcAsSent(outcome) == IF outcome = "value" THEN "OK" ELSE "EXCEPTION"

\* C8 as stated: an invocation that finishes uncancelled gets exactly one
\* RESULT, OK when the engine returned a value, EXCEPTION when it raised.
C8_OneResultAsStated == [][OneResult(RcAsStated)]_vars

\* C8: an invocation that finishes uncancelled gets exactly one RESULT: OK
\* when the engine returned a value that json.dumps accepts, EXCEPTION when
\* the engine raised or the value it returned cannot be serialized.
C8_OneResult == [][OneResult(RcAsSent)]_vars

\* One invocation returned a value and went out OK, another returned a value
\* that cannot be serialized and went out EXCEPTION.
C8_Witness ==
    /\ variant = "worker"
    /\ w_outcomes["c1"] = <<"value">> /\ w_sent["c1"] = <<"OK">>
    /\ w_outcomes["c2"] = <<"unserializable">> /\ w_sent["c2"] = <<"EXCEPTION">>

\* C9: once dying is set with invocations in flight, the loop stops running
\* only by its exit: the tasks map drained and the transport disconnected.
C9_DrainThenExit ==
    [][(/\ w_loop = "running" /\ w_dying
        /\ DOMAIN w_tasks # {}
        /\ \A c \in DOMAIN w_tasks : w_tasks[c] \in {"running", "ended"}
        /\ w_loop' # "running") =>
          (w_loop' = "exited" /\ DOMAIN w_tasks' = {} /\ ~w_connected')]_vars

\* C10: a queue() call that returns false leaves the semaphore with the
\* permits it had: a permit the call took, or was handed, is back.
C10_FalseKeepsPermits ==
    [][(Len(b_rets') = Len(b_rets) + 1 /\ ~Last(b_rets')) =>
          b_sem' = b_sem + (IF b_call = "granted" THEN 1 ELSE 0)]_vars

\* The pass (done, popped) of the worker's loop takes a RUN packet off the
\* queue and _srv_run turns it down.
RunRefused(done, popped) ==
    /\ ~w_dying
    /\ "incoming" \in done /\ w_t_incoming = "armed"
    /\ w_queue # <<>> /\ Head(w_queue).packet_type = "RUN"
    /\ WMultiplexing(done, popped)
    /\ w_loop' # "crashed"
    /\ ~WSrvRun(w_capacity, [c \in (DOMAIN w_tasks) \ popped |-> w_tasks[c]],
                Head(w_queue)).restart

\* C11: a RUN the worker refuses at admission is answered with a RESULT for
\* its cookie (rc NO_CAPACITY or BAD_PACKET) and the connection remains:
\* dying stays unset and the wait for the next packet is armed again.
C11_RefusalAnswered ==
    [][\A done \in SUBSET ({"dying", "incoming"} \cup Cookies), popped \in SUBSET Cookies :
          RunRefused(done, popped) =>
              /\ ~w_dying' /\ w_t_incoming' = "armed"
              /\ LET c == Head(w_queue).cookie
                 IN c \in Cookies =>
                       \E rc \in {"NO_CAPACITY", "BAD_PACKET"} :
                           w_sent'[c] = Append(w_sent[c], rc)]_vars

(***************************************************************************)
(* Further claims about the Multiplexor                                    *)
(***************************************************************************)
\* How many packets of queue q carry cookie c.
PacketCount(q, c) == Cardinality({i \in 1..Len(q) : q[i].cookie = c})

\* C12: the RESULT is the last packet for its cookie: once a RESULT for c is
\* on a connection's queue, no step puts another packet carrying c on any
\* queue.
C12_ResultIsLast ==
    [][\A c \in Cookies :
          (\E id \in ConnIds : ResultCount(info[id].incoming_queue, c) >= 1) =>
              \A id \in ConnIds :
                  PacketCount(info'[id].incoming_queue, c)
                      <= PacketCount(info[id].incoming_queue, c)]_vars

\* C13: after release(id) has returned true the connection is gone: id is not
\* in the connections map (so register(id) succeeds again) and no cookie is
\* bound to it.
C13_ReleaseDestroys ==
    \A id \in DOMAIN released :
        /\ id \notin connections
        /\ \A c \in DOMAIN cookies : cookies[c] # id

\* C14: once a connection is released, no step puts a packet carrying a
\* cookie it owned on the queue of another connection.
C14_NoDeliveryElsewhere ==
    [][\A id \in DOMAIN released, c \in Cookies :
          \A other \in ConnIds \ {id} :
          c \in released[id] =>
              PacketCount(info'[other].incoming_queue, c)
                  <= PacketCount(info[other].incoming_queue, c)]_vars

\* The cookies map and the connections' cookie lists agree.
CookieBinding ==
    /\ \A c \in DOMAIN cookies : cookies[c] \in connections
    /\ \A id \in connections, c \in Cookies :
          (c \in DOMAIN cookies /\ cookies[c] = id) <=> (c \in Range(info[id].cookies))
    /\ \A id \in connections, c \in Cookies :
          Cardinality({i \in 1..Len(info[id].cookies) : info[id].cookies[i] = c}) <= 1

\* C15: every cookie in the cookies map is bound to one registered connection,
\* cookies[c] = id exactly when c is in id's cookie list, and a send of a
\* bound cookie by another connection leaves the binding as it is.
C15_CookieBinding ==
    /\ []CookieBinding
    /\ [][\A id \in ConnIds, type \in {"RUN", "CANCEL"}, c \in Cookies :
             (c \in DOMAIN cookies /\ cookies[c] # id /\ SendPacket(id, type, c)) =>
                 (cookies' = cookies /\ info' = info)]_vars

\* c1 is bound to A with B registered, and the second send (by either of them)
\* has left it there.
C15_Witness ==
    /\ connections = {"A", "B"}
    /\ sends = 2 /\ run_sent = {"c1"}
    /\ cookies = [c \in {"c1"} |-> "A"]
    /\ info["A"].cookies = <<"c1">> /\ info["B"].cookies = <<>>

(***************************************************************************)
(* Claims about the client transports                                      *)
(***************************************************************************)
\* C16: the callback gets None at most once, no packet after it, and once a
\* disconnect() has returned the reader has stopped and None has been
\* delivered exactly once.
C16_EOFExactlyOnce ==
    /\ Delivered("EOF") <= 1
    /\ \A i, j \in 1..Len(ct_log) : (i < j /\ ct_log[i] = "EOF") => ct_log[j] # "pkt"
    /\ ct_returned >= 1 => (ct_handler = "none" /\ Delivered("EOF") = 1)

\* C17: send_packet on a transport whose disconnect() has returned gives
\* false; it does not raise.
C17_SendAfterDisconnect ==
    [][\A outcome \in {"true", "false", "raised"} :
          (ct_returned >= 1 /\ ct_handler = "none" /\ CtSendPacket(outcome)) =>
              outcome = "false"]_vars

(***************************************************************************)
(* Claims about the server transports                                      *)
(***************************************************************************)
\* The callbacks of a connection come as on_new, then on_read per packet, then
\* on_closed once, and on_closed has been called when _connection is through.
CallbackOrder ==
    /\ \A i \in 1..Len(sv_events) : (sv_events[i] = "new") <=> (i = 1)
    /\ \A i \in 1..Len(sv_events) : (sv_events[i] = "closed") => (i = Len(sv_events))
    /\ sv_phase = "closed" <=> (sv_events # <<>> /\ sv_events[Len(sv_events)] = "closed")

ResultWritten == \E i \in DOMAIN hs_written : hs_written[i] = "RESULT"

StreamSafe ==
    /\ hs_disconnects <= 1
    /\ hs_phase = "ended" => hs_disconnects = 1
    /\ \A i \in DOMAIN hs_written : hs_written[i] = "RESULT" => i = Len(hs_written)

\* C19: the streaming response terminates. Once the first RESULT has been
\* written or the session's death signal has been set, the stream ends and
\* the disconnect callback has been invoked exactly once, whatever the
\* interleaving of the queued packets and the death signal; the callback is
\* never invoked twice and nothing is written after the first RESULT.
C19_StreamTerminates ==
    /\ []StreamSafe
    /\ (hs_death \/ ResultWritten) ~> (hs_phase = "ended" /\ hs_disconnects = 1)

(***************************************************************************)
(* Claims about EngineContext name resolution                              *)
(***************************************************************************)
\* The string of n dots.
Dots(n) == [i \in 1..n |-> "."]

\* C20: with a non-empty call stack whose top is the fqn p1.p2...pk, a name
\* made of N leading dots (1 <= N <= k) followed by a dotted tail resolves
\* to p1...p(k-N) joined with the tail.
C20_RelativeResolves ==
    \A N \in 1..MaxNameLen : \A tail \in Dotted(MaxDepth) :
        LET p == Split(en_stack[Len(en_stack)])
        IN  (/\ en_result # EnPending
             /\ en_stack # <<>>
             /\ en_name = Dots(N) \o tail
             /\ N <= Len(p))
            => en_result = Returned(Join(SubSeq(p, 1, Len(p) - N) \o Split(tail)))

\* C21: a name with no leading dot is absolute: resolution returns it
\* unchanged whatever the call stack holds.
C21_AbsoluteUnchanged ==
    (en_result # EnPending /\ en_name \in Dotted(MaxDepth))
        => en_result = Returned(en_name)

\* C22: on a non-empty call stack, a name whose leading dots outnumber the
\* components of the fqn on top is refused at resolution with
\* WorkflowNotFound.
C22_TooManyDotsRaises ==
    \A N \in 1..MaxNameLen : \A tail \in Dotted(MaxDepth) :
        (/\ en_result # EnPending
         /\ en_stack # <<>>
         /\ en_name = Dots(N) \o tail
         /\ N > Len(Split(en_stack[Len(en_stack)])))
        => en_result = Raised(en_name)

\* C23: resolution is idempotent: resolving, on the same stack, the name a
\* successful resolution returned gives that name again.
C23_ResolveIdempotent ==
    en_again # EnPending => en_again = en_result

(***************************************************************************)
(* Claims about Engine.run and EngineContext.branch                        *)
(***************************************************************************)
\* The events of the log at which a step running at the given depth raised
\* the given kind of exception.
Raises(type, depth) ==
    {i \in DOMAIN eg_log : eg_log[i].ev = type /\ eg_log[i].depth = depth}

\* C24: when the step run by Engine.run raises RestartEngine(name, args) for
\* a workflow that exists, Engine.run goes on: the next step invoked is that
\* workflow with exactly those args, and what that step returns is what
\* Engine.run returns.
C24_RestartRebinds ==
    \A i \in Raises("RestartEngine", 1) :
        eg_log[i].fqn \in Workflows =>
            /\ Len(eg_log) = i => eg_phase \in {"in_branch", "loop"}
            /\ Len(eg_log) > i =>
                   eg_log[i + 1] = Event("invoke", eg_log[i].fqn, eg_log[i].args, 1)
            /\ (/\ Len(eg_log) = i + 2
                /\ eg_log[i + 2].ev = "return"
                /\ eg_phase # "in_branch")
               => eg_phase = "returned" /\ eg_result = eg_log[i + 2].args

\* C25: once a step, at whatever depth, has raised TerminateEngine(rc), no
\* step is invoked or resumed, every branch hands the exception on as it is
\* and Engine.run returns rc; any other exception of the step that
\* Engine.run runs leaves Engine.run.
C25_TerminatePropagates ==
    /\ \A d \in 1..MaxBranches : \A i \in Raises("TerminateEngine", d) :
           /\ Len(eg_log) = i
           /\ eg_phase \in {"in_branch", "returned"}
           /\ eg_phase = "in_branch" =>
                  eg_exc.type = "TerminateEngine" /\ eg_exc.rc = eg_log[i].args
           /\ eg_phase = "returned" => eg_result = eg_log[i].args
    /\ \A i \in Raises("Exception", 1) :
           /\ Len(eg_log) = i
           /\ eg_phase \in {"in_branch", "raised"}
           /\ eg_phase = "in_branch" => eg_exc.type = "Exception"
           /\ eg_phase = "raised" => eg_result = "Exception"

C25_Witness ==
    /\ eg_phase = "returned"
    /\ eg_log # <<>>
    /\ eg_log[Len(eg_log)].ev = "TerminateEngine"
    /\ eg_result = eg_log[Len(eg_log)].args

\* C26: the call stack is balanced: when a branch call completes, however
\* it ends, the stack is what it was when the call was made, and the stack
\* is empty at every turn of Engine.run's loop.
C26_StackBalanced ==
    /\ eg_last.after = eg_last.before
    /\ eg_phase \in {"loop", "returned", "raised"} => eg_stack = <<>>
    /\ eg_stack = [i \in DOMAIN eg_frames |-> eg_frames[i].fqn]

C26_Witness ==
    /\ eg_phase = "loop"
    /\ Raises("RestartEngine", 1) # {}
    /\ eg_last.before = <<>>

(***************************************************************************)
(* Claims about the frame codec                                            *)
(***************************************************************************)
\* C27: frame round trip. What receive_packet returns for the i-th frame of
\* a stream is the i-th packet send_packet wrote, in order; a frame starts
\* with four octets that are, most significant first, the number of JSON
\* octets that follow; None comes only after every frame has been read.
C27_FrameRoundTrip ==
    /\ \A i \in DOMAIN fc_frames :
           LET b == fc_frames[i].octets
           IN  b[1] * 16777216 + b[2] * 65536 + b[3] * 256 + b[4] = Len(b) - 4
    /\ \A i \in DOMAIN fc_recv :
           IF fc_recv[i].packet = FcNone
           THEN i = Len(fc_frames) + 1
           ELSE i <= Len(fc_frames) /\ fc_recv[i].packet = fc_frames[i].packet
    /\ (fc_eof /\ fc_stream = <<>>) => Len(fc_recv) >= Len(fc_frames)

C27_Witness ==
    /\ Len(fc_recv) = MaxFrames
    /\ fc_recv[MaxFrames].packet # FcNone
    /\ fc_recv[1].packet # fc_recv[MaxFrames].packet

\* C28: a frame whose declared length exceeds the maximum length is not
\* read as a packet, whatever ceiling between the shortest and the longest
\* frame is taken as the maximum: receive_packet returns None for it.
C28_OversizeIsEOF ==
    \A ceiling \in 2..(MaxResultLen + 1) : \A i \in DOMAIN fc_recv :
        fc_recv[i].length > ceiling => fc_recv[i].packet = FcNone

(***************************************************************************)
(* C29: a RUN whose cookie is that of an in-flight task                    *)
(***************************************************************************)
InFlight == {"running", "cancelling"}

\* The worker's loop is about to read RUN(c) while c's engine task is in flight.
WCollides(c) ==
    /\ variant = "worker"
    /\ w_loop = "running" /\ w_t_incoming = "armed" /\ w_queue # <<>>
    /\ Head(w_queue).packet_type = "RUN" /\ Head(w_queue).cookie = c
    /\ c \in DOMAIN w_tasks /\ w_tasks[c] \in InFlight

\* The same for the bus-attached TaskManager.
BCollides(c) ==
    /\ variant = "bus"
    /\ b_loop = "running" /\ b_t_incoming = "armed" /\ b_queue # <<>>
    /\ Head(b_queue).packet_type = "RUN" /\ Head(b_queue).cookie = c
    /\ c \in DOMAIN b_tasks /\ b_tasks[c] \in InFlight

WCancelsUnknown(c) ==
    /\ variant = "worker"
    /\ w_loop = "running" /\ w_t_incoming = "armed" /\ ~w_dying /\ w_queue # <<>>
    /\ Head(w_queue).packet_type = "CANCEL" /\ Head(w_queue).cookie = c
    /\ c \notin DOMAIN w_tasks

\* The same for the bus-attached TaskManager.
BCancelsUnknown(c) ==
    /\ variant = "bus"
    /\ b_loop = "running" /\ b_t_incoming = "armed" /\ ~b_dying /\ b_queue # <<>>
    /\ Head(b_queue).packet_type = "CANCEL" /\ Head(b_queue).cookie = c
    /\ c \notin DOMAIN b_tasks

\* C30: in both TaskManagers a pass of the loop that handles CANCEL(c) for a
\* cookie c that is not in tasks leaves dying unset, leaves every entry of an
\* invocation in flight as it was, adds no entry, sends no RESULT and arms the
\* wait for the next incoming packet again.
C30_UnknownCancelIgnored ==
    /\ [][\A c \in Cookies :
            WCancelsUnknown(c) /\ w_queue' = Tail(w_queue) /\ w_loop' # "crashed" =>
                /\ ~w_dying'
                /\ DOMAIN w_tasks' \subseteq DOMAIN w_tasks
                /\ \A d \in DOMAIN w_tasks : w_tasks[d] \in InFlight =>
                        d \in DOMAIN w_tasks' /\ w_tasks'[d] = w_tasks[d]
                /\ w_outcomes' = w_outcomes /\ w_sent' = w_sent
                /\ w_t_incoming' = "armed"]_vars
    /\ [][\A c \in Cookies :
            BCancelsUnknown(c) /\ b_queue' = Tail(b_queue) /\ b_loop' # "crashed" =>
                /\ ~b_dying'
                /\ DOMAIN b_tasks' \subseteq DOMAIN b_tasks
                /\ \A d \in DOMAIN b_tasks : b_tasks[d] \in InFlight =>
                        d \in DOMAIN b_tasks' /\ b_tasks'[d] = b_tasks[d]
                /\ b_t_incoming' = "armed"]_vars

(***************************************************************************)
(* C31: a packet of a type the TaskManager has no handler for              *)
(***************************************************************************)
\* The worker's loop, not dying, is about to read a packet that is neither
\* RUN, CANCEL nor SHUTDOWN (nor the transport's None).
WReadsUnsupported ==
    /\ w_loop = "running" /\ w_t_incoming = "armed" /\ ~w_dying /\ w_queue # <<>>
    /\ Head(w_queue).packet_type \notin {"RUN", "CANCEL", "SHUTDOWN", "NONE"}

\* C31: a pass of the worker's loop that handles a packet whose type is none
\* of RUN, CANCEL and SHUTDOWN leaves dying unset, starts and cancels no
\* invocation (no entry is added, every in-flight entry stays as it was) and
\* arms the wait for the next incoming packet again.
C31_UnsupportedIgnored ==
    [][WReadsUnsupported /\ w_queue' = Tail(w_queue) /\ w_loop' # "crashed" =>
            /\ ~w_dying'
            /\ DOMAIN w_tasks' \subseteq DOMAIN w_tasks
            /\ \A d \in DOMAIN w_tasks : w_tasks[d] \in InFlight =>
                    d \in DOMAIN w_tasks' /\ w_tasks'[d] = w_tasks[d]
            /\ w_outcomes' = w_outcomes
            /\ w_t_incoming' = "armed"]_vars

(***************************************************************************)
(* C32: RestartEngine raised at call depth 2 or more                       *)
(***************************************************************************)
\* The count of leading dots of a name.
RECURSIVE LeadingDots(_)
LeadingDots(name) ==
    IF name = <<>> \/ Head(name) # "." THEN 0 ELSE 1 + LeadingDots(Tail(name))

\* The resolution of a name against an fqn as the resolution rule states it:
\* a name without a leading dot is itself, N leading dots go N components up.
ResolvedAgainst(fqn, name) ==
    LET N == LeadingDots(name)
        p == Split(fqn)
    IN  IF N = 0 THEN Returned(name)
        ELSE IF N > Len(p) THEN Raised(name)
        ELSE Returned(Join(SubSeq(p, 1, Len(p) - N)
                           \o Split(SubSeq(name, N + 1, Len(name)))))

\* The fqn of the step that raised the event i of the log at depth d: that of
\* the last step invoked at that depth before it.
Raiser(i, d) ==
    LET j == CHOOSE j \in 1..(i - 1) :
                /\ eg_log[j].ev = "invoke" /\ eg_log[j].depth = d
                /\ \A h \in (j + 1)..(i - 1) :
                      ~(eg_log[h].ev = "invoke" /\ eg_log[h].depth = d)
    IN  eg_log[j].fqn

\* C32: when a step at depth 2 or more has raised RestartEngine(name) and
\* name resolves against that step's fqn, then until the next step is invoked
\* the exception goes up as RestartEngine: once the frame of the step is
\* unwound it carries the resolved name through every enclosing frame, and
\* Engine.run's next entry is that name.
C32_DeepRestartResolved ==
    \A d \in 2..MaxBranches : \A i \in Raises("RestartEngine", d) :
        LET want == ResolvedAgainst(Raiser(i, d), eg_log[i].fqn)
        IN  (Len(eg_log) = i /\ want.state = "returned") =>
                /\ eg_phase \in {"in_branch", "loop"}
                /\ eg_phase = "in_branch" =>
                       /\ eg_exc.type = "RestartEngine"
                       /\ Len(eg_frames) < d => eg_exc.name = want.value
                /\ eg_phase = "loop" => eg_entry = want.value

(***************************************************************************)
(* C33: the two TaskManagers as one state machine                          *)
(***************************************************************************)
\* C33: handed the same RUN, CANCEL and SHUTDOWN items and the same task
\* completions, the broker-attached and the bus-attached TaskManager have
\* the same tasks map and the same dying flag after every step.
C33_OneStateMachine ==
    w_tasks = b_tasks /\ w_dying = b_dying

(***************************************************************************)
(* C34: receive_packet with a timeout                                      *)
(***************************************************************************)
\* The packets the receive_packet calls have returned, in order.
PacketsReturned == SelectSeq(cl_returned, LAMBDA x : x # 0)

\* C34: a receive_packet that returns None on its timeout consumes no
\* packet: the packets the calls have returned are the first packets that
\* arrived, in arrival order, and every other packet that arrived is still on
\* the queue for a later call.
C34_TimeoutConsumesNothing ==
    /\ PacketsReturned = [i \in 1..Len(PacketsReturned) |-> i]
    /\ cl_put = Len(PacketsReturned) + Len(cl_queue)

(***************************************************************************)
(* C35: the loop after a cancelled invocation has ended                    *)
(***************************************************************************)
\* C35: when the invocation that CANCEL(c) cancelled has ended, the pass of
\* the worker's loop over its wrapper removes c from tasks and the loop goes
\* on running, with every other entry as it was.
C35_LoopSurvivesCancel ==
    [][\A c \in Cookies :
         \A done \in SUBSET ({"dying", "incoming"} \cup Cookies), popped \in SUBSET Cookies :
            (/\ c \in done /\ c \in DOMAIN w_tasks /\ w_tasks[c] = "cancelled"
             /\ WMultiplexing(done, popped))
            => /\ c \notin DOMAIN w_tasks'
               /\ w_loop' # "crashed"
               /\ \A d \in DOMAIN w_tasks : w_tasks[d] \in InFlight =>
                     d \in DOMAIN w_tasks' /\ w_tasks'[d] = w_tasks[d]]_vars

(***************************************************************************)
(* C36: a broker that keeps at most N cookies outstanding                  *)
(***************************************************************************)
\* C36: on a worker whose broker keeps at most N cookies outstanding, a
\* RUN that the loop reads is not refused for capacity, whatever the order
\* of the RESULT, the pass over the finished task and the arrival of the
\* packet.
C36_NeverCapacityReached ==
    [][(/\ w_loop = "running" /\ w_t_incoming = "armed" /\ w_queue # <<>>
        /\ Head(w_queue).packet_type = "RUN"
        /\ w_queue' = Tail(w_queue) /\ w_loop' # "crashed")
       => w_fatal' # "capacity"]_vars

\* C37: when two branch calls of one step run together on one EngineContext,
\* the step of each resolves the names it branches to against its own fqn,
\* and a call that has finished removed the frame that it had pushed itself.
C37_BranchReentrant ==
    \A i \in BranchCalls :
        /\ cb_seen[i] # NotSeen
              => cb_seen[i].result = Resolve(<<cb_own[i]>>, cb_seen[i].name)
        /\ cb_pc[i] = "done" => cb_popped[i] = i

\* C38: on every binding two connections that are open together on one
\* transport have distinct connection_ids and their own death signal and
\* outgoing queue; a packet sent to a connection's id is written to that
\* connection only, and a connection that is open is in the connection table
\* of its transport whatever happened to the other.
C38_ConnectionsApart ==
    /\ \A k \in Conns, j \in Conns :
          (k # j /\ tx_state[k] = "open" /\ tx_state[j] = "open"
           /\ tx_session[k].on = tx_session[j].on)
             => /\ tx_session[k].id # tx_session[j].id
                /\ tx_session[k].obj # tx_session[j].obj
    /\ \A k \in Conns : \A i \in DOMAIN tx_wire[k] : tx_wire[k][i] = k
    /\ \A k \in Conns :
          tx_state[k] = "open" => tx_table[tx_session[k].on][tx_session[k].id] = k

\* C39: on every binding a send_packet that on_read makes on its own transport
\* returns: the task of a connection never waits for a lock inside the
\* delivery of a packet it has read.
C39_OnReadMaySend == \A k \in Conns : tx_state[k] # "read_blocked"

\* C40: with one transport for workers and one for clients, an on_closed that
\* sends on the other transport completes: the task of a closing connection
\* never waits for a lock.
C40_OnClosedCompletes == \A k \in Conns : tx_state[k] # "closed_blocked"

\* Without the http binding no task ever waits for a lock: no lock is held
\* at a suspension.
NoLockWaitWithoutHttp ==
    tx_binding # "http" => \A k \in Conns : tx_state[k] \in {"none", "open", "ended"}

====
